---------------------------- MODULE Spec2Model ----------------------------
(***************************************************************************)
(* A model of the Boulder certificate authority core (ca/ca.go): the       *)
(* two-phase issuance pipeline IssueCertificate -> issuePrecertificate ->  *)
(* GetSCTs -> issueCertificateForPrecertificate, the calls it makes to the *)
(* Storage Authority, the issuer (Prepare / Issue), the SCT provider, and  *)
(* the metrics and audit records it writes.                                *)
(*                                                                         *)
(* Concurrent requests are processes; every call to an external            *)
(* collaborator is one step of a process, so calls of different requests   *)
(* interleave freely.  Certificates are byte strings (sequences of         *)
(* 0..255) in a small DER-like TLV encoding, so that the TBS determinism   *)
(* check parses what the issuer returned, as the code does.                *)
(***************************************************************************)
EXTENDS Integers, Sequences, FiniteSets, TLC

(***************************************************************************)
(* Bounds of the model.                                                    *)
(***************************************************************************)
\* Number of concurrent callers (goroutines) of the CA.
NumProcs == 2
\* Number of distinct outcomes of the random source read by
\* generateSerialNumber.
NumRand == 2
\* Largest number of issuers in a configuration, and of distinct NameIDs.
MaxIssuers == 3
\* Largest number of DNS names in the subjectAltName of a CSR.
MaxSANs == 2

Procs == 1..NumProcs

(***************************************************************************)
(* Byte strings.                                                           *)
(***************************************************************************)
Byte == 0..255

RECURSIVE Repeat(_, _)
Repeat(b, n) == IF n <= 0 THEN <<>> ELSE <<b>> \o Repeat(b, n - 1)

\* big.Int.SetBytes followed by big.Int.Bytes: the big-endian magnitude with
\* no leading zero byte.
RECURSIVE StripLeadingZeros(_)
StripLeadingZeros(bs) ==
    IF bs = <<>> THEN <<>>
    ELSE IF Head(bs) = 0 THEN StripLeadingZeros(Tail(bs))
    ELSE bs

\* Concatenation of a sequence of byte strings.
RECURSIVE Flatten(_)
Flatten(ss) == IF ss = <<>> THEN <<>> ELSE Head(ss) \o Flatten(Tail(ss))

RECURSIVE Nibbles(_)
Nibbles(bs) ==
    IF bs = <<>> THEN <<>>
    ELSE <<Head(bs) \div 16, Head(bs) % 16>> \o Nibbles(Tail(bs))

\* Width of the serial strings written by core.SerialToString ("%036x").
SerialHexLen == 36

\* core.SerialToString: the hexadecimal digits of the integer, left-padded
\* with zeros to 36 digits.  A big integer is held as its magnitude bytes.
SerialToString(serialBigInt) ==
    LET n == Nibbles(serialBigInt)
        digits == IF n # <<>> /\ Head(n) = 0 THEN Tail(n) ELSE n
    IN  Repeat(0, SerialHexLen - Len(digits)) \o digits

(***************************************************************************)
(* DER: tag, one-octet or 0x81 length, contents.                           *)
(***************************************************************************)
\* cryptobyte_asn1.SEQUENCE (0x30).
TagSequence == 48

\* The INTEGER, BIT STRING and UTF8String tags, and the context tags of the
\* GeneralName choices dNSName [2] and iPAddress [7].
Tags ==
    [integer |-> 2, bitString |-> 3, utf8String |-> 12, dNSName |-> 130,
     iPAddress |-> 135]

TLV(tag, content) == <<tag, Len(content)>> \o content

ReadFail == [ok |-> FALSE, body |-> <<>>, rest |-> <<>>]

\* cryptobyte.String.ReadASN1 on inputs shorter than 256 octets: the element
\* at the front must carry the tag and a DER length that fits in the input.
ReadASN1(input, tag) ==
    IF Len(input) < 2 \/ input[1] # tag THEN ReadFail
    ELSE IF input[2] < 128
         THEN IF Len(input) < 2 + input[2] THEN ReadFail
              ELSE [ok |-> TRUE,
                    body |-> SubSeq(input, 3, 2 + input[2]),
                    rest |-> SubSeq(input, 3 + input[2], Len(input))]
    ELSE IF input[2] = 129
         THEN IF Len(input) < 3 \/ input[3] < 128 \/ Len(input) < 3 + input[3]
              THEN ReadFail
              ELSE [ok |-> TRUE,
                    body |-> SubSeq(input, 4, 3 + input[3]),
                    rest |-> SubSeq(input, 4 + input[3], Len(input))]
    ELSE ReadFail

\* The closure extractTBSCertBytes of tbsCertIsDeterministic.
extractTBSCertBytes(inputDERBytes) ==
    LET cert == ReadASN1(inputDERBytes, TagSequence)
        tbs == ReadASN1(cert.body, TagSequence)
    IN  IF ~cert.ok THEN [err |-> "malformed certificate", tbs |-> <<>>]
        ELSE IF ~tbs.ok THEN [err |-> "malformed tbs certificate", tbs |-> <<>>]
        ELSE IF tbs.body = <<>>
             THEN [err |-> "parsed RawTBSCertificate field was empty", tbs |-> <<>>]
        ELSE [err |-> "", tbs |-> tbs.body]

\* core.IsAnyNilOrZero on a byte slice: nil or of length zero.
IsNilOrZeroBytes(bs) == bs = <<>>

\* tbsCertIsDeterministic: "" stands for the nil error.
tbsCertIsDeterministic_IgnoreMismatch(lintCertBytes, leafCertBytes) ==
    IF IsNilOrZeroBytes(lintCertBytes) \/ IsNilOrZeroBytes(leafCertBytes)
    THEN "lintCertBytes of leafCertBytes were nil"
    ELSE IF extractTBSCertBytes(lintCertBytes).err # ""
         THEN "while extracting lint TBS cert"
    ELSE IF extractTBSCertBytes(leafCertBytes).err # ""
         THEN "while extracting leaf TBS cert"
    ELSE ""

tbsCertIsDeterministic_LintTwice(lintCertBytes, leafCertBytes) ==
    IF IsNilOrZeroBytes(lintCertBytes) \/ IsNilOrZeroBytes(leafCertBytes)
    THEN "lintCertBytes of leafCertBytes were nil"
    ELSE IF extractTBSCertBytes(lintCertBytes).err # ""
         THEN "while extracting lint TBS cert"
    ELSE IF extractTBSCertBytes(leafCertBytes).err # ""
         THEN "while extracting leaf TBS cert"
    ELSE IF extractTBSCertBytes(lintCertBytes).tbs
              # extractTBSCertBytes(lintCertBytes).tbs
         THEN "mismatch between lintCert and leafCert RawTBSCertificate DER bytes"
    ELSE ""

tbsCertIsDeterministic(lintCertBytes, leafCertBytes) ==
    IF IsNilOrZeroBytes(lintCertBytes) \/ IsNilOrZeroBytes(leafCertBytes)
    THEN "lintCertBytes of leafCertBytes were nil"
    ELSE IF extractTBSCertBytes(lintCertBytes).err # ""
         THEN "while extracting lint TBS cert"
    ELSE IF extractTBSCertBytes(leafCertBytes).err # ""
         THEN "while extracting leaf TBS cert"
    ELSE IF extractTBSCertBytes(lintCertBytes).tbs
              # extractTBSCertBytes(leafCertBytes).tbs
         THEN "mismatch between lintCert and leafCert RawTBSCertificate DER bytes"
    ELSE ""

(***************************************************************************)
(* Certificates of the model.  The TBS holds the serial (an INTEGER), the  *)
(* issuer's NameID, NotAfter, the CT poison flag, one octet the signer      *)
(* controls, and the SCT list; the signature names the signing key (0 is   *)
(* the linter's throwaway key).                                            *)
(***************************************************************************)
EncodeTBS(t) ==
    TLV(Tags.integer, t.serial)
        \o <<t.issuerNameID, t.notAfter, IF t.poison THEN 1 ELSE 0, t.variant>>
        \o t.scts

EncodeCert(t, key) ==
    TLV(TagSequence, TLV(TagSequence, EncodeTBS(t)) \o TLV(Tags.bitString, <<key>>))

ParseFail ==
    [ok |-> FALSE, SerialNumber |-> <<>>, IssuerNameID |-> 0, NotAfter |-> 0,
     poison |-> FALSE, scts |-> <<>>, Raw |-> <<>>]

\* x509.ParseCertificate on the certificates of the model.
ParseCertificate(der) ==
    LET cert == ReadASN1(der, TagSequence)
        tbs == ReadASN1(cert.body, TagSequence)
        ser == ReadASN1(tbs.body, Tags.integer)
    IN  IF ~cert.ok \/ ~tbs.ok \/ ~ser.ok \/ Len(ser.rest) < 4 THEN ParseFail
        ELSE [ok |-> TRUE,
              SerialNumber |-> StripLeadingZeros(ser.body),
              IssuerNameID |-> ser.rest[1],
              NotAfter |-> ser.rest[2],
              poison |-> ser.rest[3] = 1,
              scts |-> SubSeq(ser.rest, 5, Len(ser.rest)),
              Raw |-> der]

(***************************************************************************)
(* Configuration handed to NewCertificateAuthorityImpl.                    *)
(***************************************************************************)
PublicKeyAlgorithms == {"RSA", "ECDSA", "Ed25519"}

\* The issuers loaded at startup: NameID, key type, active flag and the
\* NotAfter of the issuer's own certificate.
BoulderIssuers ==
    << [nameID |-> 1, keyType |-> "RSA", active |-> TRUE, notAfter |-> 12],
       [nameID |-> 2, keyType |-> "RSA", active |-> TRUE, notAfter |-> 11],
       [nameID |-> 3, keyType |-> "ECDSA", active |-> TRUE, notAfter |-> 13],
       [nameID |-> 4, keyType |-> "ECDSA", active |-> FALSE, notAfter |-> 13] >>

\* The configured certificate profiles: name and validity period.
CertificateProfiles ==
    { [name |-> "classic", validity |-> 2],
      [name |-> "tlsserver", validity |-> 1] }

\* Reading of the clock (clk.Now()).
ClkNow == [t |-> 10]

\* The two deployments considered: with and without an SCT provider client.
Configs ==
    { [issuers |-> BoulderIssuers, profiles |-> CertificateProfiles,
       serialPrefix |-> 127, sctService |-> sct] : sct \in {"sctClient", "nil"} }

\* The issuers a configuration may list, and the lists of at most MaxIssuers
\* of them.
IssuerChoices ==
    { [nameID |-> n, keyType |-> k, active |-> a, notAfter |-> 13] :
          n \in 1..MaxIssuers, k \in {"RSA", "ECDSA"}, a \in BOOLEAN }

IssuerLists == UNION { [1..n -> IssuerChoices] : n \in 0..MaxIssuers }

\* The configurations the constructor is tried on: the two deployments, every
\* serial prefix a byte can hold, every issuer list, and no profile at all.
StartupConfigs ==
    Configs
    \cup { [issuers |-> BoulderIssuers, profiles |-> CertificateProfiles,
            serialPrefix |-> b, sctService |-> "sctClient"] : b \in Byte }
    \cup { [issuers |-> l, profiles |-> CertificateProfiles,
            serialPrefix |-> 127, sctService |-> "sctClient"] : l \in IssuerLists }
    \cup { [issuers |-> BoulderIssuers, profiles |-> {},
            serialPrefix |-> 127, sctService |-> "sctClient"] }

NoIssuerMaps == [byAlg |-> [a \in PublicKeyAlgorithms |-> <<>>], byNameID |-> <<>>]

\* The loop of makeIssuerMaps over issuers[i..].
RECURSIVE makeIssuerMapsLoop_InactiveIncluded(_, _, _, _)
makeIssuerMapsLoop_InactiveIncluded(issuers, i, byAlg, byNameID) ==
    IF i > Len(issuers) THEN [err |-> "", byAlg |-> byAlg, byNameID |-> byNameID]
    ELSE LET issuer == issuers[i] IN
         IF issuer.nameID \in DOMAIN byNameID
         THEN [err |-> "two issuers with same NameID configured",
               byAlg |-> [a \in PublicKeyAlgorithms |-> <<>>], byNameID |-> <<>>]
         ELSE makeIssuerMapsLoop_InactiveIncluded(
                  issuers, i + 1,
                  [byAlg EXCEPT ![issuer.keyType] = Append(@, issuer)],
                  [n \in DOMAIN byNameID \cup {issuer.nameID} |->
                      IF n = issuer.nameID THEN issuer ELSE byNameID[n]])

RECURSIVE makeIssuerMapsLoop(_, _, _, _)
makeIssuerMapsLoop(issuers, i, byAlg, byNameID) ==
    IF i > Len(issuers) THEN [err |-> "", byAlg |-> byAlg, byNameID |-> byNameID]
    ELSE LET issuer == issuers[i] IN
         IF issuer.nameID \in DOMAIN byNameID
         THEN [err |-> "two issuers with same NameID configured",
               byAlg |-> NoIssuerMaps.byAlg, byNameID |-> NoIssuerMaps.byNameID]
         ELSE makeIssuerMapsLoop(
                  issuers, i + 1,
                  IF issuer.active
                  THEN [byAlg EXCEPT ![issuer.keyType] = Append(@, issuer)]
                  ELSE byAlg,
                  [n \in DOMAIN byNameID \cup {issuer.nameID} |->
                      IF n = issuer.nameID THEN issuer ELSE byNameID[n]])

makeIssuerMaps_NoRSACheck(issuers) ==
    LET m == makeIssuerMapsLoop(issuers, 1, NoIssuerMaps.byAlg, NoIssuerMaps.byNameID)
    IN  IF m.err # "" THEN m
        ELSE IF Len(m.byAlg["ECDSA"]) = 0
             THEN [err |-> "no ECDSA issuers configured",
                   byAlg |-> NoIssuerMaps.byAlg, byNameID |-> NoIssuerMaps.byNameID]
        ELSE m

makeIssuerMaps(issuers) ==
    LET m == makeIssuerMapsLoop(issuers, 1, NoIssuerMaps.byAlg, NoIssuerMaps.byNameID)
    IN  IF m.err # "" THEN m
        ELSE IF Len(m.byAlg["ECDSA"]) = 0
             THEN [err |-> "no ECDSA issuers configured",
                   byAlg |-> NoIssuerMaps.byAlg, byNameID |-> NoIssuerMaps.byNameID]
        ELSE IF Len(m.byAlg["RSA"]) = 0
             THEN [err |-> "no RSA issuers configured",
                   byAlg |-> NoIssuerMaps.byAlg, byNameID |-> NoIssuerMaps.byNameID]
        ELSE m

\* makeCertificateProfilesMap: the profiles by name.
makeCertificateProfilesMap(profiles) ==
    IF Cardinality(profiles) <= 0
    THEN [err |-> "must pass at least one certificate profile", byName |-> <<>>]
    ELSE [err |-> "",
          byName |-> [n \in {pr.name : pr \in profiles} |->
                         CHOOSE pr \in profiles : pr.name = n]]

NoCA ==
    [sctClient |-> "nil", issuers |-> NoIssuerMaps, certProfiles |-> <<>>, prefix |-> 0]

\* serialPrefix < 0x01 || serialPrefix > 0x7f
BadSerialPrefix_ZeroAllowed(serialPrefix) == serialPrefix > 127

BadSerialPrefix(serialPrefix) == serialPrefix < 1 \/ serialPrefix > 127

\* NewCertificateAuthorityImpl: the constructed CA, or an error.
NewCertificateAuthorityImpl(cfg) ==
    IF BadSerialPrefix(cfg.serialPrefix)
    THEN [err |-> "serial prefix must be between 0x01 (1) and 0x7f (127)", ca |-> NoCA]
    ELSE IF Len(cfg.issuers) = 0
         THEN [err |-> "must have at least one issuer", ca |-> NoCA]
    ELSE IF makeCertificateProfilesMap(cfg.profiles).err # ""
         THEN [err |-> makeCertificateProfilesMap(cfg.profiles).err, ca |-> NoCA]
    ELSE IF makeIssuerMaps(cfg.issuers).err # ""
         THEN [err |-> makeIssuerMaps(cfg.issuers).err, ca |-> NoCA]
    ELSE [err |-> "",
          ca |-> [sctClient |-> cfg.sctService,
                  issuers |-> [byAlg |-> makeIssuerMaps(cfg.issuers).byAlg,
                               byNameID |-> makeIssuerMaps(cfg.issuers).byNameID],
                  certProfiles |-> makeCertificateProfilesMap(cfg.profiles).byName,
                  prefix |-> cfg.serialPrefix]]

(***************************************************************************)
(* Serial numbers.                                                         *)
(***************************************************************************)
\* const randBits of generateSerialNumber.
randBits == 136

\* The outcomes of rand.Read considered: every random byte equal to one of
\* NumRand values spread over 0..255.
RandReads ==
    { Repeat((k * 255) \div NumRand, randBits \div 8) : k \in 1..NumRand }

\* generateSerialNumber, given what rand.Read wrote (or that it failed).
generateSerialNumber_PrefixUnset(prefix, randOK, random) ==
    IF ~randOK
    THEN [err |-> "failed to generate serial", serialBigInt |-> <<>>]
    ELSE [err |-> "", serialBigInt |-> StripLeadingZeros(<<0>> \o random)]

generateSerialNumber(prefix, randOK, random) ==
    IF ~randOK
    THEN [err |-> "failed to generate serial", serialBigInt |-> <<>>]
    ELSE [err |-> "", serialBigInt |-> StripLeadingZeros(<<prefix>> \o random)]

\* Profile.GenerateValidity: the validity window anchored at the clock.
GenerateValidity(profile, now) ==
    [notBefore |-> now, notAfter |-> now + profile.validity]

(***************************************************************************)
(* Identifiers (package identifier).  A string is the sequence of its      *)
(* character codes.                                                        *)
(***************************************************************************)
\* strings.ToLower on ASCII.
RECURSIVE ToLower(_)
ToLower(str) ==
    IF str = <<>> THEN <<>>
    ELSE <<IF Head(str) \in 65..90 THEN Head(str) + 32 ELSE Head(str)>>
             \o ToLower(Tail(str))

\* The order a < b of Go strings: byte-wise lexicographic.
RECURSIVE StrLess(_, _)
StrLess(a, b) ==
    IF b = <<>> THEN FALSE
    ELSE IF a = <<>> THEN TRUE
    ELSE IF Head(a) # Head(b) THEN Head(a) < Head(b)
    ELSE StrLess(Tail(a), Tail(b))

\* strconv.Itoa of a byte.
RECURSIVE Itoa(_)
Itoa(n) == IF n < 10 THEN <<48 + n>> ELSE Itoa(n \div 10) \o <<48 + (n % 10)>>

\* net.IP.String of an IPv4 address: dotted decimal.
RECURSIVE IPString(_)
IPString(ip) ==
    IF ip = <<>> THEN <<>>
    ELSE IF Len(ip) = 1 THEN Itoa(Head(ip))
    ELSE Itoa(Head(ip)) \o <<46>> \o IPString(Tail(ip))

NewDNS(domain) == [Type |-> "dns", Value |-> domain]

\* The ACMEIdentifier fromX509 builds for an IP address.
NewIP(ip) == [Type |-> "ip", Value |-> IPString(ip)]

\* The comparison function Normalize gives to slices.SortFunc.
IdentCmp(a, b) ==
    IF a.Type = b.Type
    THEN IF a.Value = b.Value THEN 0
         ELSE IF StrLess(a.Value, b.Value) THEN -1
         ELSE 1
    ELSE IF a.Type = "dns" /\ b.Type = "ip" THEN -1
    ELSE 1

RECURSIVE LowerAll(_)
LowerAll(idents) ==
    IF idents = <<>> THEN <<>>
    ELSE <<[Head(idents) EXCEPT !.Value = ToLower(@)]>> \o LowerAll(Tail(idents))

\* slices.SortFunc, as an insertion sort under IdentCmp.
RECURSIVE InsertIdent(_, _)
InsertIdent(x, sorted) ==
    IF sorted = <<>> THEN <<x>>
    ELSE IF IdentCmp(x, Head(sorted)) < 0 THEN <<x>> \o sorted
    ELSE <<Head(sorted)>> \o InsertIdent(x, Tail(sorted))

RECURSIVE SortFunc(_)
SortFunc(idents) ==
    IF idents = <<>> THEN <<>>
    ELSE InsertIdent(Head(idents), SortFunc(Tail(idents)))

\* slices.Compact: runs of equal elements become one element.
RECURSIVE Compact(_)
Compact(idents) ==
    IF Len(idents) < 2 THEN idents
    ELSE IF idents[1] = idents[2] THEN Compact(Tail(idents))
    ELSE <<Head(idents)>> \o Compact(Tail(idents))

Normalize_KeepsDuplicates(idents) == SortFunc(LowerAll(idents))

\* identifier.Normalize: lowercase, sort (DNS before IP), drop duplicates.
Normalize(idents) == Compact(SortFunc(LowerAll(idents)))

RECURSIVE NewDNSSlice(_)
NewDNSSlice(input) ==
    IF input = <<>> THEN <<>> ELSE <<NewDNS(Head(input))>> \o NewDNSSlice(Tail(input))

RECURSIVE NewIPSlice(_)
NewIPSlice(ips) ==
    IF ips = <<>> THEN <<>> ELSE <<NewIP(Head(ips))>> \o NewIPSlice(Tail(ips))

\* fromX509: the SAN DNS names, the common name if there is one, the SAN IP
\* addresses, normalized.
fromX509_SANsOnly(commonName, dnsNames, ipAddresses) ==
    Normalize(NewDNSSlice(dnsNames) \o NewIPSlice(ipAddresses))

fromX509(commonName, dnsNames, ipAddresses) ==
    Normalize(NewDNSSlice(dnsNames)
                  \o (IF commonName # <<>> THEN <<NewDNS(commonName)>> ELSE <<>>)
                  \o NewIPSlice(ipAddresses))

FromCSR(csr) == fromX509(csr.Subject.CommonName, csr.DNSNames, csr.IPAddresses)

IsDNS(ident) == ident.Type = "dns"
IsIP(ident) == ident.Type = "ip"

RECURSIVE Values(_)
Values(idents) ==
    IF idents = <<>> THEN <<>> ELSE <<Head(idents).Value>> \o Values(Tail(idents))

\* ACMEIdentifiers.ToValues: the DNS names and the IP addresses, each in the
\* order of the slice; an identifier of another type is an error.
ToValues(idents) ==
    [dnsNames |-> Values(SelectSeq(idents, IsDNS)),
     ipAddresses |-> Values(SelectSeq(idents, IsIP)),
     err |-> IF \E i \in 1..Len(idents) : ~IsDNS(idents[i]) /\ ~IsIP(idents[i])
             THEN "evaluating identifier type" ELSE ""]

\* csrlib.CNFromCSR: the common name of the CSR's subject, if any.
CNFromCSR(csr) == csr.Subject.CommonName

(***************************************************************************)
(* Inputs of a request.                                                    *)
(***************************************************************************)
NoCSR ==
    [ok |-> FALSE, Raw |-> <<>>, PublicKeyAlgorithm |-> "", PublicKey |-> 0,
     Subject |-> [CommonName |-> <<>>], DNSNames |-> <<>>, IPAddresses |-> <<>>]

NoNames == [ok |-> TRUE, DNSNames |-> <<>>, IPAddresses |-> <<>>]

\* The GeneralNames of a subjectAltName extension: dNSName and (IPv4)
\* iPAddress entries, collected by type.
RECURSIVE ParseGeneralNames(_, _)
ParseGeneralNames(input, acc) ==
    IF input = <<>> THEN acc
    ELSE IF ReadASN1(input, Tags.dNSName).ok
         THEN ParseGeneralNames(
                  ReadASN1(input, Tags.dNSName).rest,
                  [acc EXCEPT !.DNSNames = Append(@, ReadASN1(input, Tags.dNSName).body)])
    ELSE IF ReadASN1(input, Tags.iPAddress).ok
            /\ Len(ReadASN1(input, Tags.iPAddress).body) = 4
         THEN ParseGeneralNames(
                  ReadASN1(input, Tags.iPAddress).rest,
                  [acc EXCEPT !.IPAddresses =
                                  Append(@, ReadASN1(input, Tags.iPAddress).body)])
    ELSE [acc EXCEPT !.ok = FALSE]

\* A CSR of the model: 1, the public key k, and optionally the subject's
\* common name followed by the subjectAltName GeneralNames.
EncodeCSR(k, commonName, dnsNames, ipAddresses) ==
    <<1, k>> \o TLV(Tags.utf8String, commonName)
        \o TLV(TagSequence,
               Flatten([i \in 1..Len(dnsNames) |-> TLV(Tags.dNSName, dnsNames[i])])
                   \o Flatten([i \in 1..Len(ipAddresses) |->
                                   TLV(Tags.iPAddress, ipAddresses[i])]))

\* x509.ParseCertificateRequest on the CSRs of the model; the algorithm is
\* that of the public key.
ParseCertificateRequest(der) ==
    LET rest == SubSeq(der, 3, Len(der))
        cn == ReadASN1(rest, Tags.utf8String)
        ext == ReadASN1(cn.rest, TagSequence)
        names == IF rest = <<>> THEN NoNames ELSE ParseGeneralNames(ext.body, NoNames)
    IN  IF Len(der) < 2 \/ der[1] # 1 \/ der[2] \notin 1..3 THEN NoCSR
        ELSE IF rest # <<>> /\ (~cn.ok \/ ~ext.ok \/ ext.rest # <<>> \/ ~names.ok)
             THEN NoCSR
        ELSE [ok |-> TRUE, Raw |-> der,
              PublicKeyAlgorithm |->
                  IF der[2] = 1 THEN "RSA" ELSE IF der[2] = 2 THEN "ECDSA" ELSE "Ed25519",
              PublicKey |-> der[2],
              Subject |-> [CommonName |-> IF rest = <<>> THEN <<>> ELSE cn.body],
              DNSNames |-> names.DNSNames,
              IPAddresses |-> names.IPAddresses]

\* A nil *capb.IssueCertificateRequest.
NilRequest == [nil |-> TRUE]

\* The IssueCertificateRequest messages a caller sends: complete requests
\* over each CSR and profile, requests with one field missing or wrong, and
\* no request at all.
IssueCertificateRequests ==
    {NilRequest} \cup
    { [Csr |-> c, RegistrationID |-> 1, OrderID |-> 1, CertProfileName |-> n] :
          c \in {<<1, 1>>, <<1, 2>>, <<1, 3>>, <<9>>}, n \in {"classic", "tlsserver"} }
    \cup
    { [Csr |-> <<>>, RegistrationID |-> 1, OrderID |-> 1, CertProfileName |-> "classic"],
      [Csr |-> <<1, 1>>, RegistrationID |-> 0, OrderID |-> 1, CertProfileName |-> "classic"],
      [Csr |-> <<1, 1>>, RegistrationID |-> 1, OrderID |-> 0, CertProfileName |-> "classic"],
      [Csr |-> <<1, 1>>, RegistrationID |-> 1, OrderID |-> 1, CertProfileName |-> "unknown"] }

\* The names "A", "a", "b" and the address 10.0.0.1 that the CSRs of CsrRequests
\* are made of.
CsrNames == { <<65>>, <<97>>, <<98>> }

CsrIPLists == { <<>>, << <<10, 0, 0, 1>> >> }

\* Complete requests over RSA CSRs with every common name (or none), at most
\* MaxSANs SAN DNS names and at most one SAN IP address.
CsrRequests ==
    { [Csr |-> EncodeCSR(1, cn, dns, ips), RegistrationID |-> 1, OrderID |-> 1,
       CertProfileName |-> "classic"] :
          cn \in CsrNames \cup {<<>>},
          dns \in UNION { [1..n -> CsrNames] : n \in 0..MaxSANs },
          ips \in CsrIPLists }

\* The SCT lists the SCT provider returns; the SCT <<0>> does not parse.
SctLists == { <<>>, <<<<1>>>>, <<<<2>>>>, <<<<1>>, <<0>>>> }

\* cttls.Unmarshal of one SCT.
SctUnmarshalOK(singleSCTBytes) == singleSCTBytes # <<0>>

(***************************************************************************)
(* The issuer (issuance.Issuer): Prepare builds the lint certificate and   *)
(* the token, Issue signs the token's TBS.                                 *)
(***************************************************************************)
\* The TBS that Prepare stages for a request.
PrepareTBS(issuer, req) ==
    [serial |-> req.Serial, issuerNameID |-> issuer.nameID, notAfter |-> req.NotAfter,
     poison |-> req.IncludeCTPoison, variant |-> 0, scts |-> Flatten(req.sctList)]

\* The key of the linter's throwaway signer.
LintKey == [id |-> 0]

\* The lint certificate and the issuance token returned by a successful
\* Prepare.
Prepare(issuer, profile, req) ==
    [lintCertBytes |-> EncodeCert(PrepareTBS(issuer, req), LintKey.id),
     issuanceToken |-> [tbs |-> PrepareTBS(issuer, req), issuer |-> issuer.nameID,
                        profile |-> profile]]

\* What Issue may return for a token: the certificate over the staged TBS,
\* or (a faulty signer) a certificate whose TBS differs from it.
IssueResults(token) ==
    { [res |-> "ok", der |-> EncodeCert(token.tbs, token.issuer)],
      [res |-> "ok", der |-> EncodeCert([token.tbs EXCEPT !.variant = 1], token.issuer)],
      [res |-> "ok",
       der |-> EncodeCert(
                   [token.tbs EXCEPT
                       !.serial[Len(token.tbs.serial)] = (@ + 1) % 256],
                   token.issuer)],
      [res |-> "err", der |-> <<>>],
      [res |-> "pkcs11", der |-> <<>>] }

\* issuance.RequestFromPrecert: the request for the final certificate.
RequestFromPrecert(precert, scts) ==
    [Serial |-> precert.SerialNumber, IncludeCTPoison |-> FALSE,
     NotBefore |-> ClkNow.t, NotAfter |-> precert.NotAfter, sctList |-> scts,
     PublicKey |-> 0]

(***************************************************************************)
(* State.                                                                  *)
(***************************************************************************)
VARIABLES
    startup,  \* the configuration given to the constructor and its error
    requests, \* the IssueCertificateRequest messages that callers send
    ca,       \* the certificateAuthorityImpl built at startup
    pc,       \* per caller: the call it is about to make
    loc,      \* per caller: arguments and local variables of its invocation
    calls,    \* per caller: the calls to collaborators it made, with results
    ret,      \* per caller: what its invocation returned
    sa,       \* the Storage Authority's tables
    hsm,      \* the signing operations the issuers were asked for
    metrics,  \* caMetrics
    audit,    \* per caller: the audit log records it wrote
    ctx,      \* per caller: the context.Context of its invocation
    features, \* the feature flags (features.Get())
    inbound,  \* the http.Request given to TopHandler.ServeHTTP, with its context
    th,       \* the invocation of TopHandler.ServeHTTP: r, logEvent, rwws
    wfe,      \* the wfeHandler: what it did and what it read from its request
    infoLog,  \* the lines written to TopHandler.log
    eval      \* a function of the packages called on its own: arguments, results

\* The state of the web front end's TopHandler.
webVars == <<features, inbound, th, wfe, infoLog>>

vars ==
    <<startup, requests, ca, pc, loc, calls, ret, sa, hsm, metrics, audit, ctx,
      features, inbound, th, wfe, infoLog, eval>>

NoToken ==
    [tbs |-> [serial |-> <<>>, issuerNameID |-> 0, notAfter |-> 0, poison |-> FALSE,
              variant |-> 0, scts |-> <<>>],
     issuer |-> 0, profile |-> ""]

\* No IssuanceRequest built yet.
NoReq ==
    [PublicKey |-> 0, Serial |-> <<>>, DNSNames |-> <<>>, IPAddresses |-> <<>>,
     CommonName |-> <<>>, IncludeCTPoison |-> FALSE, NotBefore |-> 0, NotAfter |-> 0,
     sctList |-> <<>>]

NoLoc ==
    [entry |-> "", Csr |-> <<>>, regID |-> 0, orderID |-> 0, certProfile |-> "",
     serialBigInt |-> <<>>, notBefore |-> 0, notAfter |-> 0, csr |-> NoCSR,
     issuer |-> 0, req |-> NoReq, issuanceReq |-> NoReq, lintCertBytes |-> <<>>,
     issuanceToken |-> NoToken, precertDER |-> <<>>, sctBytes |-> <<>>,
     certDER |-> <<>>]

NoRet == [returned |-> FALSE, kind |-> "", msg |-> "", DER |-> <<>>]

Err(kind, msg) == [returned |-> TRUE, kind |-> kind, msg |-> msg, DER |-> <<>>]

\* The invocation did not return: its goroutine panicked.
Panic(msg) == [returned |-> FALSE, kind |-> "panic", msg |-> msg, DER |-> <<>>]
Ok(der) == [returned |-> TRUE, kind |-> "", msg |-> "", DER |-> der]

\* The error a collaborator returned over gRPC, passed on unchanged.
RpcErr(op) == Err("rpc", op)

Call(op, res) == [op |-> op, res |-> res]
AuditRec_KeepsCSR(msg, serialHex, withCSR) ==
    [msg |-> msg, serial |-> serialHex, csr |-> TRUE]

AuditRec(msg, serialHex, withCSR) == [msg |-> msg, serial |-> serialHex, csr |-> withCSR]

\* The invocation goes on to its next statement (Advance_Retry: or it
\* repeats the statement it has just executed).
Advance_Retry(p, npc, nloc, cs, as) ==
    /\ \E n \in {pc[p], npc} : pc' = [pc EXCEPT ![p] = n]
    /\ loc' = [loc EXCEPT ![p] = nloc]
    /\ calls' = [calls EXCEPT ![p] = @ \o cs]
    /\ audit' = [audit EXCEPT ![p] = @ \o as]
    /\ ret' = ret

Advance(p, npc, nloc, cs, as) ==
    /\ pc' = [pc EXCEPT ![p] = npc]
    /\ loc' = [loc EXCEPT ![p] = nloc]
    /\ calls' = [calls EXCEPT ![p] = @ \o cs]
    /\ audit' = [audit EXCEPT ![p] = @ \o as]
    /\ ret' = ret

Return(p, nloc, cs, as, r) ==
    /\ pc' = [pc EXCEPT ![p] = "done"]
    /\ loc' = [loc EXCEPT ![p] = nloc]
    /\ calls' = [calls EXCEPT ![p] = @ \o cs]
    /\ audit' = [audit EXCEPT ![p] = @ \o as]
    /\ ret' = [ret EXCEPT ![p] = r]

(***************************************************************************)
(* The Storage Authority: tables keyed by serial.                          *)
(***************************************************************************)
CertSerialHex(der) == SerialToString(ParseCertificate(der).SerialNumber)

saHasSerial(store, serialHex) == \E r \in store.serials : r.Serial = serialHex
saHasPrecert(store, serialHex) == \E r \in store.precerts : CertSerialHex(r.Der) = serialHex
saHasCert(store, serialHex) == \E r \in store.certs : CertSerialHex(r.Der) = serialHex

\* The status of a serial: wait from AddSerial, good once set ready.
saStatus(store, serialHex) ==
    IF serialHex \in store.good THEN "good"
    ELSE IF saHasSerial(store, serialHex) THEN "wait"
    ELSE "unknown"

saAddSerial(store, req) == [store EXCEPT !.serials = @ \cup {req}]
saAddPrecertificate(store, req) == [store EXCEPT !.precerts = @ \cup {req}]
saSetCertificateStatusReady(store, serialHex) == [store EXCEPT !.good = @ \cup {serialHex}]
saAddCertificate(store, req) == [store EXCEPT !.certs = @ \cup {req}]

\* GetCertificate: the stored final certificate, NotFound, or a failure.
saGetCertificateResults(store, serialHex) ==
    (IF saHasCert(store, serialHex) THEN {"ok"} ELSE {"NotFound"}) \cup {"err"}

(***************************************************************************)
(* The web front end (package web): contexts, RequestEvent and the request *)
(* that TopHandler.ServeHTTP is given.                                     *)
(***************************************************************************)
\* The number of calls the wfeHandler makes before it returns.
MaxHandlerSteps == 3

\* A context.Context is the chain of its layers, the root first.
Background == <<>>

WithCancel(parent) == Append(parent, [kind |-> "cancelCtx", val |-> ""])

WithUserAgent(c, ua) == Append(c, [kind |-> "valueCtx", val |-> ua])

WithoutCancel(c) == Append(c, [kind |-> "withoutCancelCtx", val |-> ""])

\* c.Err(): the nearest cancelCtx decides, unless a withoutCancelCtx layer
\* lies between; cancelled says whether the cancel function was called.
RECURSIVE CtxErr(_, _)
CtxErr(c, cancelled) ==
    IF c = <<>> THEN ""
    ELSE LET top == c[Len(c)] IN
         IF top.kind = "withoutCancelCtx" THEN ""
         ELSE IF top.kind = "cancelCtx" /\ cancelled THEN "context canceled"
         ELSE CtxErr(SubSeq(c, 1, Len(c) - 1), cancelled)

\* c.Value(userAgentContextKey{}), "" when no layer holds it; values are
\* looked up through every kind of layer.
RECURSIVE UserAgent(_)
UserAgent(c) ==
    IF c = <<>> THEN ""
    ELSE LET top == c[Len(c)] IN
         IF top.kind = "valueCtx" THEN top.val
         ELSE UserAgent(SubSeq(c, 1, Len(c) - 1))

\* if !features.Get().PropagateCancels
SeverCancels_Never(f) == FALSE

SeverCancels(f) == ~f.PropagateCancels

\* strings.TrimSuffix
TrimSuffix(str, suffix) ==
    IF /\ Len(str) >= Len(suffix)
       /\ SubSeq(str, Len(str) - Len(suffix) + 1, Len(str)) = suffix
    THEN SubSeq(str, 1, Len(str) - Len(suffix))
    ELSE str

\* The default ports that ServeHTTP strips from r.Host.
DefaultPorts == [https |-> <<":", "4", "4", "3">>, http |-> <<":", "8", "0">>]

StripDefaultPorts_HttpFirst(host) ==
    TrimSuffix(TrimSuffix(host, DefaultPorts.http), DefaultPorts.https)

\* r.Host after the two TrimSuffix calls.
StripDefaultPorts(host) ==
    TrimSuffix(TrimSuffix(host, DefaultPorts.https), DefaultPorts.http)

\* netip.ParseAddr fails on anything that is not an IP address.
ParseAddrFails(realIP) == realIP \notin {"10.0.0.1", "::1"}

\* The RequestEvent that ServeHTTP creates.
NewRequestEvent(realIP, method, userAgent, origin) ==
    [RealIP |-> realIP, Method |-> method, Endpoint |-> "", Requester |-> 0,
     Code |-> 0, UserAgent |-> userAgent, Origin |-> origin,
     InternalErrors |-> <<>>, Extra |-> {}, suppressed |-> FALSE]

\* RequestEvent.AddError
AddError(e, msg) ==
    [e EXCEPT !.InternalErrors = Append(@, msg), !.suppressed = FALSE]

Suppress_Always(e) == [e EXCEPT !.suppressed = TRUE]

\* RequestEvent.Suppress
Suppress(e) ==
    IF Len(e.InternalErrors) = 0 THEN [e EXCEPT !.suppressed = TRUE] ELSE e

\* json.Marshal(logEvent): the fields that are rendered; a value in Extra
\* that encoding/json does not support (a channel) makes it fail.
MarshalEvent(e) ==
    [err |-> IF "chan" \in e.Extra THEN "json: unsupported type" ELSE "",
     json |-> [InternalErrors |-> e.InternalErrors, ua |-> e.UserAgent,
               Origin |-> e.Origin, Extra |-> e.Extra]]

NoJSON == [InternalErrors |-> <<>>, ua |-> "", Origin |-> "", Extra |-> {}]

\* TopHandler.logEvent: the lines it writes for an event.
logEvent(e) ==
    IF e.suppressed THEN <<>>
    ELSE IF MarshalEvent(e).err # ""
    THEN << [level |-> "AUDIT_ERR", Method |-> "", Endpoint |-> "", Requester |-> 0,
             Code |-> 0, RealIP |-> "", JSON |-> NoJSON] >>
    ELSE << [level |-> "INFO", Method |-> e.Method, Endpoint |-> e.Endpoint,
             Requester |-> e.Requester, Code |-> e.Code, RealIP |-> e.RealIP,
             JSON |-> MarshalEvent(e).json] >>

\* The status code that ServeHTTP's deferred function logs for rwws.code.
LoggedCode_Raw(code) == code

LoggedCode(code) == IF code = 0 THEN 200 ELSE code

\* The context of an inbound RPC of the CA: it can be cancelled; at is the
\* statement the invocation had reached when the cancellation arrived.
RequestContext == [c |-> WithCancel(Background), cancelled |-> FALSE, at |-> ""]

\* A gRPC call on a context that is done fails without reaching the server.
RpcResults(cx, outcomes) ==
    IF CtxErr(cx.c, cx.cancelled) # "" THEN {"canceled"} ELSE outcomes

\* The context that AddSerial is called with: ca.sa.AddSerial(ctx, ...)
AddSerialCtx_Background(cx) == [cx EXCEPT !.c = Background]

AddSerialCtx(cx) == cx

\* The context that AddPrecertificate is called with:
\* ca.sa.AddPrecertificate(context.Background(), ...)
AddPrecertificateCtx_Request(cx) == cx

AddPrecertificateCtx(cx) == [cx EXCEPT !.c = Background]

\* The Host headers that clients send.
Hosts ==
    { <<"h">>, <<"h">> \o DefaultPorts.http, <<"h">> \o DefaultPorts.https,
      <<"h", ":", "1", "2", "3">>,
      <<"h">> \o DefaultPorts.https \o DefaultPorts.http,
      <<"h">> \o DefaultPorts.http \o DefaultPorts.https,
      <<"h">> \o DefaultPorts.http \o DefaultPorts.http,
      <<"h">> \o DefaultPorts.https \o DefaultPorts.https }

\* The requests that reach ServeHTTP: from a server connection (its context
\* can be cancelled) or built by http.NewRequest (context.Background()).
HttpRequests ==
    { [Method |-> "GET", Host |-> h, TLS |-> tls,
       Header |-> [UserAgent |-> ua, XRealIP |-> ip, Origin |-> ""],
       ctx |-> c, cancelled |-> FALSE] :
          h \in Hosts, tls \in BOOLEAN, ua \in {"", "curl"},
          ip \in {"", "10.0.0.1"}, c \in {Background, WithCancel(Background)} }

\* The status codes and Extra values of the handlers.
StatusCodes == {201, 404}

ExtraValues == {"string", "chan"}

NoInbound ==
    [Method |-> "", Host |-> <<>>, TLS |-> FALSE,
     Header |-> [UserAgent |-> "", XRealIP |-> "", Origin |-> ""],
     ctx |-> Background, cancelled |-> FALSE]

\* ServeHTTP has not been called.
NoFrame ==
    [pc |-> "idle", r |-> [Host |-> <<>>, ctx |-> Background],
     logEvent |-> NewRequestEvent("", "", "", ""), rwws |-> [code |-> 0, wire |-> 0]]

\* The handler has done nothing and read nothing.
NoWfe ==
    [steps |-> 0, wroteHeader |-> <<>>, eventCalls |-> <<>>, read |-> FALSE,
     ctxErr |-> "", userAgent |-> "", Host |-> <<>>, panicked |-> FALSE]

\* No web request is served.
NoWebRequest ==
    /\ features = [PropagateCancels |-> FALSE]
    /\ inbound = NoInbound
    /\ th = NoFrame
    /\ wfe = NoWfe
    /\ infoLog = <<>>

\* No function is called on its own.
NoEval == [fn |-> ""]

(***************************************************************************)
(* Initial states: the constructor has run on one of the configurations    *)
(* cfgs, and callers will send the requests reqs; no request has arrived.   *)
(***************************************************************************)
InitWith(cfgs, reqs) ==
    /\ startup \in { [cfg |-> cfg, err |-> NewCertificateAuthorityImpl(cfg).err] :
                       cfg \in cfgs }
    /\ ca = NewCertificateAuthorityImpl(startup.cfg).ca
    /\ requests = reqs
    /\ pc = [p \in Procs |-> "idle"]
    /\ loc = [p \in Procs |-> NoLoc]
    /\ calls = [p \in Procs |-> <<>>]
    /\ ret = [p \in Procs |-> NoRet]
    /\ sa = [serials |-> {}, good |-> {}, precerts |-> {}, certs |-> {}]
    /\ hsm = {}
    /\ metrics = [lintErrorCount |-> 0, signErrorCount |-> 0,
                  signatureCount |-> [precertificate |-> 0, certificate |-> 0],
                  certificates |-> 0]
    /\ audit = [p \in Procs |-> <<>>]
    /\ ctx = [p \in Procs |-> RequestContext]

\* A CA that was constructed without error, serving the usual requests.
Init ==
    /\ InitWith({ cfg \in Configs : NewCertificateAuthorityImpl(cfg).err = "" },
                IssueCertificateRequests)
    /\ NoWebRequest
    /\ eval = NoEval

\* Callers are numbered in the order in which they arrive; there is a CA to
\* call only if the constructor returned one.
Arrives(p) ==
    /\ startup.err = ""
    /\ pc[p] = "idle"
    /\ \A q \in Procs : q < p => pc[q] # "idle"

(***************************************************************************)
(* IssueCertificate, up to the first call of issuePrecertificate.          *)
(***************************************************************************)
\* core.IsAnyNilOrZero(issueReq.Csr, issueReq.RegistrationID, issueReq.OrderID)
IncompleteRequest(issueReq) ==
    IsNilOrZeroBytes(issueReq.Csr) \/ issueReq.RegistrationID = 0 \/ issueReq.OrderID = 0

\* The arguments of core.IsAnyNilOrZero are evaluated before it is called:
\* issueReq.Csr on a nil issueReq is a nil pointer dereference.
IssueCertificate(p) ==
    /\ Arrives(p)
    /\ \E issueReq \in requests, randOK \in BOOLEAN, random \in RandReads :
         LET l0 == [NoLoc EXCEPT !.entry = "IssueCertificate",
                                 !.Csr = issueReq.Csr,
                                 !.regID = issueReq.RegistrationID,
                                 !.orderID = issueReq.OrderID,
                                 !.certProfile = issueReq.CertProfileName]
             gen == generateSerialNumber(ca.prefix, randOK, random)
         IN  IF issueReq = NilRequest
             THEN Return(p, [NoLoc EXCEPT !.entry = "IssueCertificate"], <<>>, <<>>,
                         Panic("invalid memory address or nil pointer dereference"))
             ELSE IF IncompleteRequest(issueReq)
             THEN Return(p, l0, <<>>, <<>>,
                         Err("InternalServerError", "Incomplete issue certificate request"))
             ELSE IF ca.sctClient = "nil"
             THEN Return(p, l0, <<>>, <<>>,
                         Err("untyped", "IssueCertificate called with a nil SCT service"))
             ELSE IF issueReq.CertProfileName \notin DOMAIN ca.certProfiles
             THEN Return(p, l0, <<>>, <<>>,
                         Err("untyped", "the CA is incapable of using a profile named"))
             ELSE IF gen.err # ""
             THEN Return(p, l0, <<>>,
                         <<AuditRec("Serial randomness failed", <<>>, FALSE)>>,
                         Err("InternalServerError", gen.err))
             ELSE LET v == GenerateValidity(ca.certProfiles[issueReq.CertProfileName],
                                            ClkNow.t)
                  IN  Advance(p, "AddSerial",
                              [l0 EXCEPT !.serialBigInt = gen.serialBigInt,
                                         !.notBefore = v.notBefore,
                                         !.notAfter = v.notAfter],
                              <<>>, <<>>)
    /\ UNCHANGED <<eval, webVars, ctx, startup, requests, ca, sa, hsm, metrics>>

(***************************************************************************)
(* issuePrecertificate.                                                    *)
(***************************************************************************)
AddSerialRequest_NoSerial(serialHex, regID, now, notAfter) ==
    [Serial |-> <<>>, RegID |-> regID, Created |-> now, Expires |-> notAfter]

AddSerialRequest(serialHex, regID, now, notAfter) ==
    [Serial |-> serialHex, RegID |-> regID, Created |-> now, Expires |-> notAfter]

\* if err != nil { return nil, err } after AddSerial
AddSerialFailed_Ignored(res) == FALSE

AddSerialFailed(res) == res # "ok"

AddSerial(p) ==
    /\ pc[p] = "AddSerial"
    /\ \E rpc \in RpcResults(AddSerialCtx(ctx[p]), {"ok", "err"}) :
         LET serialHex == SerialToString(loc[p].serialBigInt)
             res == IF rpc = "ok" /\ saHasSerial(sa, serialHex) THEN "err" ELSE rpc
         IN  /\ sa' = IF res = "ok"
                      THEN saAddSerial(sa, AddSerialRequest(serialHex, loc[p].regID,
                                                            ClkNow.t, loc[p].notAfter))
                      ELSE sa
             /\ IF AddSerialFailed(res)
                THEN Return(p, loc[p], <<Call("AddSerial", res)>>, <<>>,
                            RpcErr("AddSerial"))
                ELSE Advance(p, "VerifyCSR", loc[p], <<Call("AddSerial", res)>>, <<>>)
    /\ UNCHANGED <<eval, webVars, ctx, startup, requests, ca, hsm, metrics>>

\* issuePrecertificateInner: parse the CSR and check it against key and
\* name policy.
VerifyCSR(p) ==
    /\ pc[p] = "VerifyCSR"
    /\ LET csr == ParseCertificateRequest(loc[p].Csr) IN
       IF ~csr.ok
       THEN Return(p, loc[p], <<>>, <<>>, Err("untyped", "x509: malformed CSR"))
       ELSE \E res \in {"ok", "Malformed", "BadPublicKey"} :
              IF res # "ok"
              THEN Return(p, [loc[p] EXCEPT !.csr = csr], <<Call("VerifyCSR", res)>>,
                          <<AuditRec("VerifyCSR failed", <<>>, FALSE)>>,
                          Err(res, "VerifyCSR failed"))
              ELSE Advance(p, "Prepare", [loc[p] EXCEPT !.csr = csr],
                           <<Call("VerifyCSR", res)>>, <<>>)
    /\ UNCHANGED <<eval, webVars, ctx, startup, requests, ca, sa, hsm, metrics>>

\* issuer.Cert.NotAfter.Before(notAfter)
ExpiresAfterIssuer_OrEqual(issuer, notAfter) == issuer.notAfter <= notAfter

ExpiresAfterIssuer(issuer, notAfter) == issuer.notAfter < notAfter

\* The IssuanceRequest of the precertificate; serialBigInt.Bytes() is the
\* magnitude the model holds.
PrecertIssuanceRequest(csr, serialBigInt, notBefore, notAfter) ==
    [PublicKey |-> csr.PublicKey, Serial |-> serialBigInt,
     DNSNames |-> ToValues(FromCSR(csr)).dnsNames,
     IPAddresses |-> ToValues(FromCSR(csr)).ipAddresses,
     CommonName |-> CNFromCSR(csr),
     IncludeCTPoison |-> TRUE,
     NotBefore |-> notBefore, NotAfter |-> notAfter, sctList |-> <<>>]

\* if err != nil after issuer.Prepare
PrepareFailed_LintIgnored(res) == res = "err"

PrepareFailed(res) == res # "ok"

\* if errors.Is(err, linter.ErrLinting) { ca.metrics.lintErrorCount.Inc() }
IsLintError(res) == res = "lint"

\* issuePrecertificateInner: select the issuer, check its expiry, build the
\* request and have the issuer prepare (and lint) it.
PreparePrecert(p) ==
    /\ pc[p] = "Prepare"
    /\ LET issuerPool == ca.issuers.byAlg[loc[p].csr.PublicKeyAlgorithm]
           serialHex == SerialToString(loc[p].serialBigInt)
       IN
       IF Len(issuerPool) = 0
       THEN /\ Return(p, loc[p], <<>>, <<>>,
                      Err("InternalServerError",
                          "no issuers found for public key algorithm"))
            /\ metrics' = metrics
       ELSE \E i \in 1..Len(issuerPool), res \in {"ok", "lint", "err"} :
              LET issuer == issuerPool[i]
                  l1 == [loc[p] EXCEPT !.issuer = issuer.nameID]
                  req == PrecertIssuanceRequest(loc[p].csr, loc[p].serialBigInt,
                                                loc[p].notBefore, loc[p].notAfter)
                  l2 == [l1 EXCEPT !.req = req]
                  prep == Prepare(issuer, loc[p].certProfile, req)
              IN  IF ExpiresAfterIssuer(issuer, loc[p].notAfter)
                  THEN /\ Return(p, l1, <<>>,
                                 <<AuditRec("cannot issue a certificate that expires after the issuer certificate",
                                            <<>>, FALSE)>>,
                                 Err("InternalServerError",
                                     "cannot issue a certificate that expires after the issuer certificate"))
                       /\ metrics' = metrics
                  ELSE IF ToValues(FromCSR(loc[p].csr)).err # ""
                  THEN /\ Return(p, l1, <<>>, <<>>,
                                 Err("untyped", ToValues(FromCSR(loc[p].csr)).err))
                       /\ metrics' = metrics
                  ELSE IF PrepareFailed(res)
                  THEN /\ Return(p, l2, <<Call("Prepare", res)>>,
                                 <<AuditRec("Preparing precert failed", serialHex, FALSE)>>,
                                 Err("InternalServerError",
                                     "failed to prepare precertificate signing"))
                       /\ metrics' = IF IsLintError(res)
                                     THEN [metrics EXCEPT !.lintErrorCount = @ + 1]
                                     ELSE metrics
                  ELSE /\ Advance(p, "AddPrecertificate",
                                  [l2 EXCEPT !.lintCertBytes = prep.lintCertBytes,
                                             !.issuanceToken = prep.issuanceToken],
                                  <<Call("Prepare", res)>>, <<>>)
                       /\ metrics' = metrics
    /\ UNCHANGED <<eval, webVars, ctx, startup, requests, ca, sa, hsm>>

\* The AddCertificateRequest sent to AddPrecertificate.
AddPrecertificateRequest_SignedLater(lintCertBytes, regID, now, issuerNameID) ==
    [Der |-> lintCertBytes, RegID |-> regID, Issued |-> now,
     IssuerNameID |-> issuerNameID, OcspNotReady |-> FALSE]

AddPrecertificateRequest(lintCertBytes, regID, now, issuerNameID) ==
    [Der |-> lintCertBytes, RegID |-> regID, Issued |-> now,
     IssuerNameID |-> issuerNameID, OcspNotReady |-> TRUE]

\* if err != nil { return nil, nil, err } after AddPrecertificate
AddPrecertificateFailed_Ignored(res) == FALSE

AddPrecertificateFailed(res) == res # "ok"

AddPrecertificate(p) ==
    /\ pc[p] = "AddPrecertificate"
    /\ \E rpc \in RpcResults(AddPrecertificateCtx(ctx[p]), {"ok", "err"}) :
         LET req == AddPrecertificateRequest(loc[p].lintCertBytes, loc[p].regID,
                                             ClkNow.t, loc[p].issuer)
             res == IF rpc = "ok" /\ saHasPrecert(sa, CertSerialHex(req.Der))
                    THEN "err" ELSE rpc
         IN  /\ sa' = IF res = "ok" THEN saAddPrecertificate(sa, req) ELSE sa
             /\ IF AddPrecertificateFailed(res)
                THEN Return(p, loc[p], <<Call("AddPrecertificate", res)>>, <<>>,
                            RpcErr("AddPrecertificate"))
                ELSE Advance(p, "Issue", loc[p], <<Call("AddPrecertificate", res)>>,
                             <<>>)
    /\ UNCHANGED <<eval, webVars, ctx, startup, requests, ca, hsm, metrics>>

\* caMetrics.noteSignError: only PKCS#11 errors are counted.
noteSignError(m, res) ==
    IF res = "pkcs11" THEN [m EXCEPT !.signErrorCount = @ + 1] ELSE m

SignRecord(p, purpose, token, lint, r) ==
    [p |-> p, purpose |-> purpose, issuer |-> token.issuer, profile |-> token.profile,
     serial |-> SerialToString(StripLeadingZeros(token.tbs.serial)),
     lint |-> lint, res |-> r.res, der |-> r.der]

\* issuePrecertificateInner: sign the precertificate and compare its TBS
\* with the lint certificate's.
IssuePrecert(p) ==
    /\ pc[p] = "Issue"
    /\ \E r \in IssueResults(loc[p].issuanceToken) :
         LET serialHex == SerialToString(loc[p].serialBigInt)
             signing == AuditRec("Signing precert", serialHex, TRUE)
             l1 == [loc[p] EXCEPT !.certDER = r.der]
         IN  /\ hsm' = hsm \cup {SignRecord(p, "precertificate", loc[p].issuanceToken,
                                            loc[p].lintCertBytes, r)}
             /\ IF r.res # "ok"
                THEN /\ metrics' = noteSignError(metrics, r.res)
                     /\ Return(p, l1, <<Call("Issue", r.res)>>,
                               <<signing,
                                 AuditRec("Signing precert failed", serialHex, FALSE)>>,
                               Err("InternalServerError", "failed to sign precertificate"))
                ELSE IF tbsCertIsDeterministic(loc[p].lintCertBytes, r.der) # ""
                THEN /\ metrics' = metrics
                     /\ Return(p, l1, <<Call("Issue", r.res)>>, <<signing>>,
                               Err("untyped",
                                   tbsCertIsDeterministic(loc[p].lintCertBytes, r.der)))
                ELSE /\ metrics' = [metrics EXCEPT
                                       !.signatureCount.precertificate = @ + 1]
                     /\ Advance(p, "SetCertificateStatusReady",
                                [l1 EXCEPT !.precertDER = r.der],
                                <<Call("Issue", r.res)>>,
                                <<signing,
                                  AuditRec("Signing precert success", serialHex, FALSE)>>)
    /\ UNCHANGED <<eval, webVars, ctx, startup, requests, ca, sa>>

SetCertificateStatusReady(p) ==
    /\ pc[p] = "SetCertificateStatusReady"
    /\ \E res \in RpcResults(ctx[p], {"ok", "err"}) :
         LET serialHex == SerialToString(loc[p].serialBigInt) IN
         /\ sa' = IF res = "ok" THEN saSetCertificateStatusReady(sa, serialHex) ELSE sa
         /\ IF res # "ok"
            THEN Return(p, loc[p], <<Call("SetCertificateStatusReady", res)>>, <<>>,
                        RpcErr("SetCertificateStatusReady"))
            ELSE Advance(p, "GetSCTs", loc[p],
                         <<Call("SetCertificateStatusReady", res)>>, <<>>)
    /\ UNCHANGED <<eval, webVars, ctx, startup, requests, ca, hsm, metrics>>

\* if err != nil { return nil, err } after GetSCTs
GetSCTsFailed_Ignored(res) == FALSE

GetSCTsFailed(res) == res # "ok"

\* IssueCertificate: ask the SCT provider for SCTs over the precertificate.
GetSCTs(p) ==
    /\ pc[p] = "GetSCTs"
    /\ \E res \in RpcResults(ctx[p], {"ok", "err"}), scts \in SctLists :
         IF GetSCTsFailed(res)
         THEN Return(p, loc[p], <<Call("GetSCTs", res)>>, <<>>, RpcErr("GetSCTs"))
         ELSE Advance(p, "GetCertificate", [loc[p] EXCEPT !.sctBytes = scts],
                      <<Call("GetSCTs", res)>>, <<>>)
    /\ UNCHANGED <<eval, webVars, ctx, startup, requests, ca, sa, hsm, metrics>>

(***************************************************************************)
(* issueCertificateForPrecertificate.                                      *)
(***************************************************************************)
\* Whether issuePrecertificate has returned a precertificate to caller q.
PrecertReturned(q) ==
    \E i \in 1..Len(calls[q]) : calls[q][i] = Call("SetCertificateStatusReady", "ok")

\* The precertificate der as an issuer that this CA does not have would have
\* signed it.
ForeignPrecert(der) ==
    LET precert == ParseCertificate(der) IN
    EncodeCert([serial |-> precert.SerialNumber, issuerNameID |-> 9,
                notAfter |-> precert.NotAfter, poison |-> TRUE, variant |-> 0,
                scts |-> <<>>], 9)

\* A direct invocation of issueCertificateForPrecertificate (as the package's
\* tests make it) with a precertificate that issuePrecertificate returned, or
\* with one from an issuer that is not loaded.
IssueCertificateForPrecertificate(p) ==
    /\ Arrives(p)
    /\ \E q \in Procs, scts \in SctLists, name \in DOMAIN ca.certProfiles :
         /\ PrecertReturned(q)
         /\ \E precertDER \in {loc[q].precertDER, ForeignPrecert(loc[q].precertDER)} :
            Advance(p, "GetCertificate",
                    [NoLoc EXCEPT !.entry = "issueCertificateForPrecertificate",
                                  !.precertDER = precertDER,
                                  !.sctBytes = scts,
                                  !.certProfile = name,
                                  !.regID = loc[q].regID,
                                  !.orderID = loc[q].orderID],
                    <<>>, <<>>)
    /\ UNCHANGED <<eval, webVars, ctx, startup, requests, ca, sa, hsm, metrics>>

\* The outcome of the duplicate check on GetCertificate's result:
\*   err == nil -> duplicate; !errors.Is(err, berrors.NotFound) -> fatal.
DuplicateCheck_FoundIgnored(res) ==
    IF res = "NotFound" \/ res = "ok" THEN "proceed" ELSE "fatal"

DuplicateCheck_ErrorIgnored(res) ==
    IF res = "ok" THEN "duplicate" ELSE "proceed"

DuplicateCheck(res) ==
    IF res = "ok" THEN "duplicate"
    ELSE IF res # "NotFound" THEN "fatal"
    ELSE "proceed"

GetCertificate(p) ==
    /\ pc[p] = "GetCertificate"
    /\ LET precert == ParseCertificate(loc[p].precertDER)
           serialHex == SerialToString(precert.SerialNumber)
       IN
       IF ~precert.ok
       THEN Return(p, loc[p], <<>>, <<>>, Err("untyped", "x509: malformed certificate"))
       ELSE \E res \in RpcResults(ctx[p], saGetCertificateResults(sa, serialHex)) :
              IF DuplicateCheck(res) = "duplicate"
              THEN Return(p, loc[p], <<Call("GetCertificate", res)>>,
                          <<AuditRec("issuance of duplicate final certificate requested",
                                     serialHex, FALSE)>>,
                          Err("InternalServerError",
                              "issuance of duplicate final certificate requested"))
              ELSE IF DuplicateCheck(res) = "fatal"
              THEN Return(p, loc[p], <<Call("GetCertificate", res)>>, <<>>,
                          Err("untyped", "error checking for duplicate issuance"))
              ELSE Advance(p, "FinalPrepare", loc[p], <<Call("GetCertificate", res)>>,
                           <<>>)
    /\ UNCHANGED <<eval, webVars, ctx, startup, requests, ca, sa, hsm, metrics>>

\* ca.issuers.byNameID[issuance.IssuerNameID(precert)]
FinalIssuer_FirstLoaded(byNameID, precert) ==
    byNameID[CHOOSE id \in DOMAIN byNameID : \A other \in DOMAIN byNameID : id <= other]

FinalIssuer(byNameID, precert) == byNameID[precert.IssuerNameID]

\* The loop over sctBytes: cttls.Unmarshal fails for one of them.
SctsUnmarshalFailed_Ignored(sctBytes) == FALSE

SctsUnmarshalFailed(sctBytes) ==
    \E i \in 1..Len(sctBytes) : ~SctUnmarshalOK(sctBytes[i])

\* if err != nil after issuer.Prepare for the final certificate
FinalPrepareFailed_Ignored(res) == FALSE

FinalPrepareFailed(res) == res # "ok"

\* Parse the SCTs, find the precertificate's issuer, rebuild the request and
\* have the issuer prepare (and lint) the final certificate.
PrepareFinal(p) ==
    /\ pc[p] = "FinalPrepare"
    /\ LET precert == ParseCertificate(loc[p].precertDER)
           serialHex == SerialToString(precert.SerialNumber)
           scts == loc[p].sctBytes
       IN
       IF SctsUnmarshalFailed(scts)
       THEN Return(p, loc[p], <<>>, <<>>, Err("untyped", "tls: unmarshal SCT"))
       ELSE IF precert.IssuerNameID \notin DOMAIN ca.issuers.byNameID
       THEN Return(p, loc[p], <<>>, <<>>,
                   Err("InternalServerError", "no issuer found for Issuer Name"))
       ELSE \E res \in {"ok", "lint", "err"} :
              LET issuer == FinalIssuer(ca.issuers.byNameID, precert)
                  issuanceReq == RequestFromPrecert(precert, scts)
                  l1 == [loc[p] EXCEPT !.issuer = issuer.nameID,
                                       !.issuanceReq = issuanceReq]
                  prep == Prepare(issuer, loc[p].certProfile, issuanceReq)
              IN  IF FinalPrepareFailed(res)
                  THEN Return(p, l1, <<Call("FinalPrepare", res)>>,
                              <<AuditRec("Preparing cert failed", serialHex, FALSE)>>,
                              Err("InternalServerError",
                                  "failed to prepare certificate signing"))
                  ELSE Advance(p, "FinalIssue",
                               [l1 EXCEPT !.lintCertBytes = prep.lintCertBytes,
                                          !.issuanceToken = prep.issuanceToken],
                               <<Call("FinalPrepare", res)>>, <<>>)
    /\ UNCHANGED <<eval, webVars, ctx, startup, requests, ca, sa, hsm, metrics>>

\* Sign the final certificate and compare its TBS with the lint
\* certificate's.
IssueFinal(p) ==
    /\ pc[p] = "FinalIssue"
    /\ \E r \in IssueResults(loc[p].issuanceToken) :
         LET serialHex == CertSerialHex(loc[p].precertDER)
             signing == AuditRec("Signing cert", serialHex, FALSE)
             l1 == [loc[p] EXCEPT !.certDER = r.der]
         IN  /\ hsm' = hsm \cup {SignRecord(p, "certificate", loc[p].issuanceToken,
                                            loc[p].lintCertBytes, r)}
             /\ IF r.res # "ok"
                THEN /\ metrics' = noteSignError(metrics, r.res)
                     /\ Return(p, l1, <<Call("FinalIssue", r.res)>>,
                               <<signing,
                                 AuditRec("Signing cert failed", serialHex, FALSE)>>,
                               Err("InternalServerError", "failed to sign certificate"))
                ELSE IF tbsCertIsDeterministic(loc[p].lintCertBytes, r.der) # ""
                THEN /\ metrics' = metrics
                     /\ Return(p, l1, <<Call("FinalIssue", r.res)>>, <<signing>>,
                               Err("untyped",
                                   tbsCertIsDeterministic(loc[p].lintCertBytes, r.der)))
                ELSE /\ metrics' = [metrics EXCEPT
                                       !.signatureCount.certificate = @ + 1,
                                       !.certificates = @ + 1]
                     /\ Advance(p, "AddCertificate", l1, <<Call("FinalIssue", r.res)>>,
                                <<signing,
                                  AuditRec("Signing cert success", serialHex, FALSE)>>)
    /\ UNCHANGED <<eval, webVars, ctx, startup, requests, ca, sa>>

\* The AddCertificateRequest sent to AddCertificate.
AddCertificateRequest_Lint(certDER, lintCertBytes, regID, now) ==
    [Der |-> lintCertBytes, RegID |-> regID, Issued |-> now]

AddCertificateRequest(certDER, lintCertBytes, regID, now) ==
    [Der |-> certDER, RegID |-> regID, Issued |-> now]

AddCertificate(p) ==
    /\ pc[p] = "AddCertificate"
    /\ \E rpc \in RpcResults(ctx[p], {"ok", "err"}) :
         LET req == AddCertificateRequest(loc[p].certDER, loc[p].lintCertBytes,
                                          loc[p].regID, ClkNow.t)
             serialHex == CertSerialHex(loc[p].precertDER)
             res == IF rpc = "ok" /\ saHasCert(sa, CertSerialHex(req.Der))
                    THEN "err" ELSE rpc
         IN  /\ sa' = IF res = "ok" THEN saAddCertificate(sa, req) ELSE sa
             /\ IF res # "ok"
                THEN Return(p, loc[p], <<Call("AddCertificate", res)>>,
                            <<AuditRec("Failed RPC to store at SA", serialHex, FALSE)>>,
                            RpcErr("AddCertificate"))
                ELSE Return(p, loc[p], <<Call("AddCertificate", res)>>, <<>>,
                            Ok(loc[p].certDER))
    /\ UNCHANGED <<eval, webVars, ctx, startup, requests, ca, hsm, metrics>>

(***************************************************************************)
(* The specification.                                                      *)
(***************************************************************************)
Next ==
    \E p \in Procs :
        \/ IssueCertificate(p)
        \/ AddSerial(p)
        \/ VerifyCSR(p)
        \/ PreparePrecert(p)
        \/ AddPrecertificate(p)
        \/ IssuePrecert(p)
        \/ SetCertificateStatusReady(p)
        \/ GetSCTs(p)
        \/ IssueCertificateForPrecertificate(p)
        \/ GetCertificate(p)
        \/ PrepareFinal(p)
        \/ IssueFinal(p)
        \/ AddCertificate(p)

Spec == Init /\ [][Next]_vars

(***************************************************************************)
(* The first request, up to the Prepare call of its precertificate:        *)
(* StartupSpec after the constructor has run on every configuration,       *)
(* CsrSpec with CSRs over every choice of common name and SANs.            *)
(***************************************************************************)
StartupInit ==
    InitWith(StartupConfigs, IssueCertificateRequests) /\ NoWebRequest /\ eval = NoEval

CsrInit ==
    /\ InitWith({ cfg \in Configs : cfg.sctService # "nil" }, CsrRequests)
    /\ NoWebRequest
    /\ eval = NoEval

FirstCaller(p) == \A q \in Procs : p <= q

FirstRequestNext ==
    \E p \in Procs :
        \/ FirstCaller(p) /\ IssueCertificate(p)
        \/ FirstCaller(p) /\ AddSerial(p)
        \/ FirstCaller(p) /\ VerifyCSR(p)
        \/ FirstCaller(p) /\ PreparePrecert(p)

StartupSpec == StartupInit /\ [][FirstRequestNext]_vars

CsrSpec == CsrInit /\ [][FirstRequestNext]_vars

(***************************************************************************)
(* One request whose inbound context may be cancelled at any moment.       *)
(***************************************************************************)
\* The client of caller p's RPC goes away: its context is cancelled.
CancelRequest(p) ==
    /\ pc[p] # "done"
    /\ ~ctx[p].cancelled
    /\ ctx' = [ctx EXCEPT ![p].cancelled = TRUE, ![p].at = pc[p]]
    /\ UNCHANGED <<eval, webVars, startup, requests, ca, pc, loc, calls, ret, sa, hsm,
                   metrics, audit>>

CancelNext ==
    \E p \in Procs :
        \/ FirstCaller(p) /\ CancelRequest(p)
        \/ FirstCaller(p) /\ IssueCertificate(p)
        \/ FirstCaller(p) /\ AddSerial(p)
        \/ FirstCaller(p) /\ VerifyCSR(p)
        \/ FirstCaller(p) /\ PreparePrecert(p)
        \/ FirstCaller(p) /\ AddPrecertificate(p)
        \/ FirstCaller(p) /\ IssuePrecert(p)
        \/ FirstCaller(p) /\ SetCertificateStatusReady(p)
        \/ FirstCaller(p) /\ GetSCTs(p)
        \/ FirstCaller(p) /\ GetCertificate(p)
        \/ FirstCaller(p) /\ PrepareFinal(p)
        \/ FirstCaller(p) /\ IssueFinal(p)
        \/ FirstCaller(p) /\ AddCertificate(p)

CancelSpec == Init /\ [][CancelNext]_vars

(***************************************************************************)
(* TopHandler.ServeHTTP: the request is wrapped and handed to the          *)
(* wfeHandler; when the handler returns (or panics) the deferred function  *)
(* logs the RequestEvent.  The clock does not advance: Latency is 0.       *)
(***************************************************************************)
caVars == <<startup, requests, ca, pc, loc, calls, ret, sa, hsm, metrics, audit, ctx>>

\* The client goes away: the cancel function of the inbound context is called.
CancelInbound ==
    /\ inbound.ctx # Background
    /\ ~inbound.cancelled
    /\ th.pc # "done"
    /\ inbound' = [inbound EXCEPT !.cancelled = TRUE]
    /\ UNCHANGED <<eval, caVars, features, th, wfe, infoLog>>

\* ServeHTTP up to the call th.wfe.ServeHTTP(logEvent, rwws, r).
ServeHTTP ==
    /\ th.pc = "idle"
    /\ LET realIP == IF ParseAddrFails(inbound.Header.XRealIP) THEN "0.0.0.0"
                     ELSE inbound.Header.XRealIP
           userAgent == inbound.Header.UserAgent
           c1 == WithUserAgent(inbound.ctx, userAgent)
           c2 == IF SeverCancels(features) THEN WithoutCancel(c1) ELSE c1
       IN  th' = [pc |-> "wfe",
                  r |-> [Host |-> StripDefaultPorts(inbound.Host), ctx |-> c2],
                  logEvent |-> NewRequestEvent(realIP, inbound.Method, userAgent,
                                               inbound.Header.Origin),
                  rwws |-> [code |-> 0, wire |-> 0]]
    /\ UNCHANGED <<eval, caVars, features, inbound, wfe, infoLog>>

\* The handler is running and makes one more call.
WfeStep ==
    /\ th.pc = "wfe"
    /\ wfe.steps < MaxHandlerSteps

\* responseWriterWithStatus.WriteHeader: the code is recorded on every call,
\* the wrapped ResponseWriter sends only the first.
WfeWriteHeader ==
    /\ WfeStep
    /\ \E code \in StatusCodes :
         /\ th' = [th EXCEPT !.rwws.code = code,
                             !.rwws.wire = IF @ = 0 THEN code ELSE @]
         /\ wfe' = [wfe EXCEPT !.steps = @ + 1, !.wroteHeader = Append(@, code)]
    /\ UNCHANGED <<eval, caVars, features, inbound, infoLog>>

\* w.Write goes to the embedded ResponseWriter, which sends 200 if no header
\* was written; rwws.code is not touched.
WfeWrite ==
    /\ WfeStep
    /\ th' = [th EXCEPT !.rwws.wire = IF @ = 0 THEN 200 ELSE @,
                        !.logEvent.Endpoint = "/endpoint"]
    /\ wfe' = [wfe EXCEPT !.steps = @ + 1]
    /\ UNCHANGED <<eval, caVars, features, inbound, infoLog>>

WfeAddError ==
    /\ WfeStep
    /\ th' = [th EXCEPT !.logEvent = AddError(@, "err")]
    /\ wfe' = [wfe EXCEPT !.steps = @ + 1, !.eventCalls = Append(@, "AddError")]
    /\ UNCHANGED <<eval, caVars, features, inbound, infoLog>>

WfeSuppress ==
    /\ WfeStep
    /\ th' = [th EXCEPT !.logEvent = Suppress(@)]
    /\ wfe' = [wfe EXCEPT !.steps = @ + 1, !.eventCalls = Append(@, "Suppress")]
    /\ UNCHANGED <<eval, caVars, features, inbound, infoLog>>

\* The handler stores a value in logEvent.Extra.
WfeSetExtra ==
    /\ WfeStep
    /\ \E v \in ExtraValues : th' = [th EXCEPT !.logEvent.Extra = @ \cup {v}]
    /\ wfe' = [wfe EXCEPT !.steps = @ + 1]
    /\ UNCHANGED <<eval, caVars, features, inbound, infoLog>>

\* The handler reads r.Context().Err(), the context's User-Agent and r.Host.
WfeReadsRequest ==
    /\ WfeStep
    /\ wfe' = [wfe EXCEPT !.steps = @ + 1,
                          !.read = TRUE,
                          !.ctxErr = CtxErr(th.r.ctx, inbound.cancelled),
                          !.userAgent = UserAgent(th.r.ctx),
                          !.Host = th.r.Host]
    /\ UNCHANGED <<eval, caVars, features, inbound, th, infoLog>>

\* The handler returns or panics; either way the deferred function runs.
WfeReturns ==
    /\ th.pc = "wfe"
    /\ \E panicked \in BOOLEAN :
         LET e == [th.logEvent EXCEPT !.Code = LoggedCode(th.rwws.code)] IN
         /\ th' = [th EXCEPT !.pc = "done", !.logEvent = e]
         /\ infoLog' = infoLog \o logEvent(e)
         /\ wfe' = [wfe EXCEPT !.panicked = panicked]
    /\ UNCHANGED <<eval, caVars, features, inbound>>

WebNext ==
    \/ CancelInbound
    \/ ServeHTTP
    \/ WfeWriteHeader
    \/ WfeWrite
    \/ WfeAddError
    \/ WfeSuppress
    \/ WfeSetExtra
    \/ WfeReadsRequest
    \/ WfeReturns

\* A CA has been constructed and serves no request; the web front end is
\* given one request under either setting of PropagateCancels.
WebInit ==
    /\ InitWith({ cfg \in Configs : cfg.sctService # "nil" }, {})
    /\ features \in { [PropagateCancels |-> b] : b \in BOOLEAN }
    /\ inbound \in HttpRequests
    /\ th = NoFrame
    /\ wfe = NoWfe
    /\ infoLog = <<>>
    /\ eval = NoEval

WebSpec == WebInit /\ [][WebNext]_vars

(***************************************************************************)
(* Functions of the packages called on their own, outside a request:       *)
(* tbsCertIsDeterministic on two byte strings and identifier.Normalize on  *)
(* a list of identifiers, which is then normalized a second time.          *)
(***************************************************************************)
MaxIdents == 3

\* A certificate in DER: the TBSCertificate, what follows it inside the
\* certificate (signature algorithm and value), and what follows the
\* certificate.
CertBytes(tbs, outside, trailing) ==
    TLV(TagSequence, TLV(TagSequence, tbs) \o outside) \o trailing

TBSContents == { TLV(Tags.integer, <<5>>), TLV(Tags.integer, <<6>>) }
OutsideTBS == { <<>>, TLV(Tags.bitString, <<0>>) }
TrailingData == { <<>>, <<9>> }

WellFormedCerts ==
    { CertBytes(t, o, x) : t \in TBSContents, o \in OutsideTBS, x \in TrailingData }

\* nil; a lone tag; an INTEGER; a certificate cut short; an empty
\* certificate; a certificate whose first element is an INTEGER; a TBS cut
\* short; an empty TBS.
MalformedCerts ==
    { <<>>,
      <<TagSequence>>,
      TLV(Tags.integer, <<5>>),
      <<TagSequence, 5, TagSequence, 3, Tags.integer, 1>>,
      TLV(TagSequence, <<>>),
      TLV(TagSequence, TLV(Tags.integer, <<5>>)),
      TLV(TagSequence, <<TagSequence, 3, Tags.integer, 1>>),
      TLV(TagSequence, TLV(TagSequence, <<>>)) }

CertInputs == WellFormedCerts \cup MalformedCerts

\* Identifiers given to Normalize: "a", "A", "b" as DNS names, and "a", "::A"
\* and "::a" as IP identifiers.
IdentInputs ==
    { NewDNS(<<97>>), NewDNS(<<65>>), NewDNS(<<98>>),
      [Type |-> "ip", Value |-> <<97>>],
      [Type |-> "ip", Value |-> <<58, 58, 65>>],
      [Type |-> "ip", Value |-> <<58, 58, 97>>] }

IdentLists == UNION { [1..n -> IdentInputs] : n \in 0..MaxIdents }

EvalCalls ==
    { [fn |-> "tbsCertIsDeterministic", lintCertBytes |-> l, leafCertBytes |-> f,
       returned |-> FALSE, err |-> ""] : l \in CertInputs, f \in CertInputs }
    \cup
    { [fn |-> "Normalize", idents |-> ids, out |-> <<>>] : ids \in IdentLists }

EvalInit ==
    /\ InitWith({ cfg \in Configs : cfg.sctService # "nil" }, {})
    /\ NoWebRequest
    /\ eval \in EvalCalls

TbsCertIsDeterministicCall ==
    /\ eval.fn = "tbsCertIsDeterministic"
    /\ ~eval.returned
    /\ eval' = [eval EXCEPT
                  !.returned = TRUE,
                  !.err = tbsCertIsDeterministic(eval.lintCertBytes, eval.leafCertBytes)]
    /\ UNCHANGED <<caVars, webVars>>

\* Normalize on the input, then on what the previous call returned.
NormalizeCall ==
    /\ eval.fn = "Normalize"
    /\ Len(eval.out) < 2
    /\ eval' = [eval EXCEPT
                  !.out = Append(@, Normalize(IF @ = <<>> THEN eval.idents
                                              ELSE @[Len(@)]))]
    /\ UNCHANGED <<caVars, webVars>>

EvalNext == TbsCertIsDeterministicCall \/ NormalizeCall

EvalSpec == EvalInit /\ [][EvalNext]_vars


(***************************************************************************)
(* Properties.                                                             *)
(***************************************************************************)
HasCall(p, op) == \E i \in 1..Len(calls[p]) : calls[p][i].op = op
HasCallRes(p, op, res) == \E i \in 1..Len(calls[p]) : calls[p][i] = Call(op, res)

Succeeded(p) == ret[p].returned /\ ret[p].kind = ""
Failed(p) == ret[p].returned /\ ret[p].kind # ""

\* The serial of caller p's request, as written to the Storage Authority.
SerialHexOf(p) ==
    IF loc[p].entry = "IssueCertificate" THEN SerialToString(loc[p].serialBigInt)
    ELSE CertSerialHex(loc[p].precertDER)

TBSOf(der) == extractTBSCertBytes(der).tbs

\* A signing operation that returned a certificate whose TBS is not the lint
\* certificate's.
Mismatched(h) == h.res = "ok" /\ TBSOf(h.lint) # TBSOf(h.der)

OrderedOps ==
    <<"AddSerial", "AddPrecertificate", "Issue", "SetCertificateStatusReady",
      "GetSCTs", "FinalIssue", "AddCertificate">>

IsOrderedOp(c) == \E i \in 1..Len(OrderedOps) : OrderedOps[i] = c.op

OrderedCalls(p) == SelectSeq(calls[p], IsOrderedOp)

\* C1: in every execution of IssueCertificate the calls AddSerial,
\* AddPrecertificate, precertificate Issue, SetCertificateStatusReady, GetSCTs,
\* final Issue, AddCertificate occur in this order, each only after the
\* previous one returned success.
C1_CallOrder ==
    \A p \in Procs :
        loc[p].entry = "IssueCertificate" =>
            /\ Len(OrderedCalls(p)) <= Len(OrderedOps)
            /\ \A i \in 1..Len(OrderedCalls(p)) :
                 /\ OrderedCalls(p)[i].op = OrderedOps[i]
                 /\ i < Len(OrderedCalls(p)) => OrderedCalls(p)[i].res = "ok"

C1_Witness ==
    \E p \in Procs :
        /\ loc[p].entry = "IssueCertificate"
        /\ Succeeded(p)
        /\ Len(OrderedCalls(p)) = Len(OrderedOps)

\* C2: durability before signing: whenever an issuer has been asked to sign a
\* precertificate for serial S, the Storage Authority holds a precertificate
\* row with the lint DER for S, OcspNotReady = true and the signing issuer's
\* NameID; a request whose AddPrecertificate failed never asks for a signature.
C2_DurabilityBeforeSigning ==
    /\ \A h \in hsm :
         h.purpose = "precertificate" =>
             /\ HasCallRes(h.p, "AddPrecertificate", "ok")
             /\ \E r \in sa.precerts :
                  /\ r.Der = h.lint
                  /\ CertSerialHex(r.Der) = h.serial
                  /\ r.OcspNotReady
                  /\ r.IssuerNameID = h.issuer
    /\ \A p \in Procs :
         HasCallRes(p, "AddPrecertificate", "err") =>
             /\ ~HasCall(p, "Issue")
             /\ \A h \in hsm : h.p # p

C2_Witness ==
    /\ \E h \in hsm : h.purpose = "precertificate"
    /\ \E p \in Procs : HasCallRes(p, "AddPrecertificate", "err")

\* C3: whenever IssueCertificate returns a DER, the Storage Authority holds,
\* for one serial, the AddSerial record, the lint-precertificate row, status
\* good and a final certificate row with exactly the returned DER; that serial
\* is the one put in the IssuanceRequest and checked by GetCertificate.
C3_SuccessIsDurable ==
    \A p \in Procs :
        (loc[p].entry = "IssueCertificate" /\ Succeeded(p)) =>
            LET serialHex == SerialToString(loc[p].serialBigInt) IN
            /\ saHasSerial(sa, serialHex)
            /\ saStatus(sa, serialHex) = "good"
            /\ \E h \in hsm :
                 /\ h.p = p /\ h.purpose = "precertificate" /\ h.serial = serialHex
                 /\ \E r \in sa.precerts :
                      r.Der = h.lint /\ CertSerialHex(r.Der) = serialHex
            /\ \E r \in sa.certs :
                 r.Der = ret[p].DER /\ CertSerialHex(r.Der) = serialHex
            /\ CertSerialHex(loc[p].precertDER) = serialHex
            /\ ret[p].DER # <<>>

C3_Witness ==
    \E p \in Procs :
        /\ loc[p].entry = "IssueCertificate" /\ Succeeded(p)
        /\ saHasCert(sa, SerialToString(loc[p].serialBigInt))

DuplicateError ==
    Err("InternalServerError", "issuance of duplicate final certificate requested")

\* C4: no duplicate final: a call of issueCertificateForPrecertificate whose
\* GetCertificate finds the final certificate stored by an earlier call
\* returns the InternalServerError "issuance of duplicate final certificate
\* requested" and makes no Prepare, Issue or AddCertificate call.
C4_NoDuplicateFinal ==
    \A p \in Procs :
        HasCallRes(p, "GetCertificate", "ok") =>
            /\ saHasCert(sa, SerialHexOf(p))
            /\ ret[p] = DuplicateError
            /\ ~HasCall(p, "FinalPrepare")
            /\ ~HasCall(p, "FinalIssue")
            /\ ~HasCall(p, "AddCertificate")
            /\ \A h \in hsm : ~(h.p = p /\ h.purpose = "certificate")

C4_Witness ==
    \E p, q \in Procs :
        /\ p # q
        /\ Succeeded(q)
        /\ SerialHexOf(q) = SerialHexOf(p)
        /\ loc[p].entry = "issueCertificateForPrecertificate"
        /\ ret[p] = DuplicateError

\* C5 (as claimed): of the invocations of issueCertificateForPrecertificate
\* for one serial, at most one reaches the final Issue step.
C5_AtMostOneFinalIssue ==
    \A h1, h2 \in hsm :
        (h1.purpose = "certificate" /\ h2.purpose = "certificate"
            /\ h1.serial = h2.serial) => h1.p = h2.p

\* C5 (amended): an invocation whose duplicate check runs when a final
\* certificate for its serial is already stored is refused at that check: it
\* returns without reaching Prepare or the final Issue.
C5_RefusedOnceStored ==
    [][\A p \in Procs :
          (pc[p] = "GetCertificate" /\ pc'[p] # "GetCertificate"
              /\ saHasCert(sa, SerialHexOf(p)))
          => (pc'[p] = "done" /\ Failed(p)')]_vars

C5_Witness ==
    \E p, q \in Procs :
        /\ p # q
        /\ HasCallRes(q, "FinalIssue", "ok")
        /\ SerialHexOf(q) = SerialHexOf(p)
        /\ loc[q].entry = "issueCertificateForPrecertificate"
        /\ loc[p].entry = "IssueCertificate"
        /\ ret[p] = DuplicateError

\* C6: TBS determinism: at both stages, a signing whose returned DER has TBS
\* octets different from the lint certificate's never lets
\* issuePrecertificate or issueCertificateForPrecertificate return success;
\* every successful issuance has equal TBS octets at both stages.
C6_TBSDeterminism ==
    /\ \A h \in hsm :
         (h.res = "ok" /\ TBSOf(h.lint) # TBSOf(h.der)) =>
             /\ h.purpose = "precertificate" =>
                    (~HasCall(h.p, "SetCertificateStatusReady") /\ ~Succeeded(h.p))
             /\ h.purpose = "certificate" =>
                    (~HasCall(h.p, "AddCertificate") /\ ~Succeeded(h.p))
    /\ \A p \in Procs :
         Succeeded(p) =>
             \E h \in hsm :
                 /\ h.p = p /\ h.purpose = "certificate" /\ h.der = ret[p].DER
                 /\ TBSOf(h.lint) = TBSOf(h.der)
                 /\ TBSOf(h.der) # <<>>

C6_Witness ==
    \E p \in Procs :
        /\ loc[p].entry = "IssueCertificate"
        /\ Succeeded(p)
        /\ \A h \in hsm : h.p = p => TBSOf(h.lint) = TBSOf(h.der)
        /\ \E h \in hsm : h.p = p /\ h.purpose = "precertificate"

\* C7: when the issuer returns a DER whose TBS differs from the lint TBS the
\* request ends with an error and writes nothing more to the Storage
\* Authority: in the precertificate phase SetCertificateStatusReady is never
\* called (the serial stays in wait) and no SCT or final step runs; in the
\* final phase AddCertificate is never called and the certificate is not
\* stored.
C7_MismatchAborts ==
    \A h \in hsm :
        Mismatched(h) =>
            /\ pc[h.p] = "done"
            /\ Failed(h.p)
            /\ ~HasCall(h.p, "AddCertificate")
            /\ \A r \in sa.certs : r.Der # h.der
            /\ h.purpose = "precertificate" =>
                   /\ ~HasCall(h.p, "SetCertificateStatusReady")
                   /\ ~HasCall(h.p, "GetSCTs")
                   /\ ~HasCall(h.p, "GetCertificate")
                   /\ ~HasCall(h.p, "FinalPrepare")
                   /\ ~HasCall(h.p, "FinalIssue")
                   /\ saStatus(sa, h.serial) = "wait"
            /\ h.purpose = "certificate" =>
                   calls[h.p][Len(calls[h.p])] = Call("FinalIssue", "ok")

C7_Witness ==
    /\ \E h \in hsm : Mismatched(h) /\ h.purpose = "precertificate"
    /\ \E h \in hsm : Mismatched(h) /\ h.purpose = "certificate"

\* C8: lint gate of the precertificate phase: if Prepare fails,
\* IssueCertificate returns the InternalServerError "failed to prepare
\* precertificate signing" and the request makes no AddPrecertificate, Issue
\* or SetCertificateStatusReady call: no precertificate row, no signing.
C8_LintGate ==
    \A p \in Procs :
        (HasCallRes(p, "Prepare", "lint") \/ HasCallRes(p, "Prepare", "err")) =>
            /\ ret[p] = Err("InternalServerError",
                            "failed to prepare precertificate signing")
            /\ ~HasCall(p, "AddPrecertificate")
            /\ ~HasCall(p, "Issue")
            /\ ~HasCall(p, "SetCertificateStatusReady")
            /\ ~saHasPrecert(sa, SerialHexOf(p))
            /\ \A h \in hsm : h.p # p

C8_Witness ==
    \E p \in Procs :
        /\ HasCallRes(p, "Prepare", "lint")
        /\ saHasSerial(sa, SerialHexOf(p))

RECURSIVE CountLintFailures(_)
CountLintFailures(cs) ==
    IF cs = <<>> THEN 0
    ELSE (IF Head(cs) \in {Call("Prepare", "lint"), Call("FinalPrepare", "lint")}
          THEN 1 ELSE 0) + CountLintFailures(Tail(cs))

RECURSIVE SumLintFailures(_)
SumLintFailures(ps) ==
    IF ps = {} THEN 0
    ELSE LET p == CHOOSE x \in ps : TRUE
         IN  CountLintFailures(calls[p]) + SumLintFailures(ps \ {p})

\* C9: the lint_errors counter counts the lint failures of both phases: it
\* equals the number of Prepare calls, precertificate and final alike, that
\* failed with a linting error.
C9_LintErrorsCounted == metrics.lintErrorCount = SumLintFailures(Procs)

ExpiryError ==
    Err("InternalServerError",
        "cannot issue a certificate that expires after the issuer certificate")

\* C10: issuer expiry: an issuance whose NotAfter is strictly later than the
\* chosen issuer's NotAfter fails with InternalServerError and makes no
\* Prepare, AddPrecertificate or Issue call (no precertificate row); one whose
\* NotAfter is not later, equal included, is not rejected by this check.
C10_IssuerExpiry ==
    \A p \in Procs :
        (loc[p].entry = "IssueCertificate" /\ loc[p].issuer # 0) =>
            LET issuer == ca.issuers.byNameID[loc[p].issuer] IN
            /\ loc[p].notAfter > issuer.notAfter =>
                   /\ ret[p] = ExpiryError
                   /\ ~HasCall(p, "Prepare")
                   /\ ~HasCall(p, "AddPrecertificate")
                   /\ ~HasCall(p, "Issue")
                   /\ ~saHasPrecert(sa, SerialHexOf(p))
            /\ loc[p].notAfter <= issuer.notAfter =>
                   /\ ret[p] # ExpiryError
                   /\ HasCall(p, "Prepare")

C10_Witness ==
    /\ \E p \in Procs : ret[p] = ExpiryError
    /\ \E p \in Procs :
         /\ loc[p].entry = "IssueCertificate" /\ loc[p].issuer # 0
         /\ loc[p].notAfter = ca.issuers.byNameID[loc[p].issuer].notAfter
         /\ HasCallRes(p, "AddPrecertificate", "ok")

NoIssuersError ==
    Err("InternalServerError", "no issuers found for public key algorithm")

\* Caller p's CSR passed VerifyCSR and its PublicKeyAlgorithm has no active
\* issuer.
NoActiveIssuer(p) ==
    /\ loc[p].entry = "IssueCertificate"
    /\ HasCallRes(p, "VerifyCSR", "ok")
    /\ Len(ca.issuers.byAlg[loc[p].csr.PublicKeyAlgorithm]) = 0

\* C11 (as claimed): a request that fails with "no issuers found for public
\* key algorithm" has made no Storage Authority write at all: no AddSerial,
\* no AddPrecertificate, no SetCertificateStatusReady, no AddCertificate.
C11_NoStorageWrite ==
    \A p \in Procs :
        ret[p] = NoIssuersError =>
            /\ ~HasCall(p, "AddSerial")
            /\ ~HasCall(p, "AddPrecertificate")
            /\ ~HasCall(p, "SetCertificateStatusReady")
            /\ ~HasCall(p, "AddCertificate")

\* C11 (amended): when the CSR's PublicKeyAlgorithm has no active issuers,
\* IssueCertificate fails with the InternalServerError "no issuers found for
\* public key algorithm"; by then the request has made exactly one Storage
\* Authority write, the successful AddSerial that leaves its serial in wait,
\* and it makes no Prepare, AddPrecertificate, Issue,
\* SetCertificateStatusReady or AddCertificate call.
C11_OnlySerialWritten ==
    \A p \in Procs :
        /\ (NoActiveIssuer(p) /\ pc[p] = "done") => ret[p] = NoIssuersError
        /\ ret[p] = NoIssuersError =>
              /\ NoActiveIssuer(p)
              /\ calls[p] = <<Call("AddSerial", "ok"), Call("VerifyCSR", "ok")>>
              /\ \E r \in sa.serials :
                     r.Serial = SerialHexOf(p) /\ r.RegID = loc[p].regID
              /\ saStatus(sa, SerialHexOf(p)) = "wait"
              /\ ~saHasPrecert(sa, SerialHexOf(p))
              /\ ~saHasCert(sa, SerialHexOf(p))
              /\ \A h \in hsm : h.p # p

C11_Witness ==
    \E p \in Procs :
        /\ ret[p] = NoIssuersError
        /\ loc[p].csr.PublicKeyAlgorithm = "Ed25519"
        /\ saHasSerial(sa, SerialHexOf(p))

\* Caller p's IssueCertificate was given a nil request.
NilRequestGiven(p) == loc[p].entry = "IssueCertificate" /\ ret[p].kind = "panic"

\* The request of caller p lacks one of CSR, RegistrationID, OrderID.
IncompleteGiven(p) ==
    IsNilOrZeroBytes(loc[p].Csr) \/ loc[p].regID = 0 \/ loc[p].orderID = 0

\* Caller p's IssueCertificate has ended on a request that validation
\* rejects.
RejectedAtValidation(p) ==
    /\ loc[p].entry = "IssueCertificate"
    /\ pc[p] = "done"
    /\ \/ NilRequestGiven(p)
       \/ IncompleteGiven(p)
       \/ ca.sctClient = "nil"
       \/ loc[p].certProfile \notin DOMAIN ca.certProfiles

\* C12: a request rejected at validation (the request or one of CSR,
\* RegistrationID, OrderID nil or zero; a nil SCT client; a profile name that
\* is not configured) returns an error, having generated no serial and made no
\* Storage Authority, SCT or signing call; the checks apply in that order.
C12_ValidationFrame ==
    \A p \in Procs :
        RejectedAtValidation(p) =>
            /\ Failed(p)
            /\ loc[p].serialBigInt = <<>>
            /\ calls[p] = <<>>
            /\ \A h \in hsm : h.p # p
            /\ (NilRequestGiven(p) \/ IncompleteGiven(p)) =>
                   ret[p].msg = "Incomplete issue certificate request"
            /\ (~NilRequestGiven(p) /\ ~IncompleteGiven(p) /\ ca.sctClient = "nil") =>
                   ret[p].msg = "IssueCertificate called with a nil SCT service"

\* C13: if GetSCTs fails after a successful precertificate phase,
\* IssueCertificate returns that error; the serial stays in state good with
\* the lint-precertificate row stored, and the request makes no
\* GetCertificate, final Prepare, final Issue or AddCertificate call, so it
\* stores no final certificate.
C13_SCTFailure ==
    \A p \in Procs :
        HasCallRes(p, "GetSCTs", "err") =>
            /\ loc[p].entry = "IssueCertificate"
            /\ ret[p] = RpcErr("GetSCTs")
            /\ calls[p][Len(calls[p])] = Call("GetSCTs", "err")
            /\ ~HasCall(p, "GetCertificate")
            /\ ~HasCall(p, "FinalPrepare")
            /\ ~HasCall(p, "FinalIssue")
            /\ ~HasCall(p, "AddCertificate")
            /\ \A h \in hsm : ~(h.p = p /\ h.purpose = "certificate")
            /\ saStatus(sa, SerialHexOf(p)) = "good"
            /\ \E r \in sa.precerts :
                   r.Der = loc[p].lintCertBytes /\ CertSerialHex(r.Der) = SerialHexOf(p)
            /\ \A r \in sa.certs :
                   CertSerialHex(r.Der) = SerialHexOf(p) =>
                       \E q \in Procs :
                           /\ q # p
                           /\ loc[q].entry = "issueCertificateForPrecertificate"
                           /\ HasCallRes(q, "AddCertificate", "ok")

C13_Witness ==
    \E p \in Procs :
        /\ HasCallRes(p, "GetSCTs", "err")
        /\ pc[p] = "done"
        /\ saStatus(sa, SerialHexOf(p)) = "good"
        /\ ~saHasCert(sa, SerialHexOf(p))

\* The calls of a request to its collaborators.
CallOps ==
    {"AddSerial", "VerifyCSR", "Prepare", "AddPrecertificate", "Issue",
     "SetCertificateStatusReady", "GetSCTs", "GetCertificate", "FinalPrepare",
     "FinalIssue", "AddCertificate"}

CountOp(p, op) == Cardinality({i \in 1..Len(calls[p]) : calls[p][i].op = op})
CountCall(p, op, res) ==
    Cardinality({i \in 1..Len(calls[p]) : calls[p][i] = Call(op, res)})

\* C14: no retries: one invocation makes at most one call of each kind
\* (AddSerial, AddPrecertificate, SetCertificateStatusReady, GetSCTs,
\* GetCertificate, AddCertificate, Prepare and Issue of each phase, hence at
\* most two Issue calls); Issue is called only with the token of a successful
\* Prepare of the same phase, at most once; and a successful
\* issuePrecertificate has made exactly one AddSerial, one AddPrecertificate,
\* one Issue and one SetCertificateStatusReady, each of them successful.
C14_NoRetries ==
    \A p \in Procs :
        /\ \A op \in CallOps : CountOp(p, op) <= 1
        /\ CountOp(p, "Issue") + CountOp(p, "FinalIssue") <= 2
        /\ CountOp(p, "Issue") <= CountCall(p, "Prepare", "ok")
        /\ CountOp(p, "FinalIssue") <= CountCall(p, "FinalPrepare", "ok")
        /\ Cardinality({h \in hsm : h.p = p}) <= 2
        /\ \A h \in hsm :
              h.p = p =>
                  /\ h.lint = EncodeCert(loc[p].issuanceToken.tbs, LintKey.id)
                         \/ (h.purpose = "precertificate" /\ HasCall(p, "FinalPrepare"))
                  /\ \A g \in hsm : (g.p = p /\ g.purpose = h.purpose) => g = h
        /\ PrecertReturned(p) =>
              /\ CountCall(p, "AddSerial", "ok") = 1
              /\ CountCall(p, "AddPrecertificate", "ok") = 1
              /\ CountCall(p, "Issue", "ok") = 1
              /\ CountCall(p, "SetCertificateStatusReady", "ok") = 1

C14_Witness ==
    \E p \in Procs :
        /\ loc[p].entry = "IssueCertificate"
        /\ Succeeded(p)
        /\ CountOp(p, "Issue") + CountOp(p, "FinalIssue") = 2
        /\ \A op \in CallOps : CountOp(p, op) = 1

\* Caller p's generateSerialNumber returned a serial.
SerialGenerated(p) ==
    loc[p].entry = "IssueCertificate" /\ loc[p].serialBigInt # <<>>

\* C15: serial shape: the constructor rejects every serial prefix outside
\* 0x01..0x7F; for every CA it constructs, each generated serial has byte 0
\* equal to the configured prefix, at least 17 bytes, and the high bit of
\* byte 0 clear; the Serial bytes handed to Prepare are the prefix byte
\* followed by all the random bytes: no leading byte is stripped.
C15_SerialShape ==
    /\ startup.cfg.serialPrefix \notin 1..127 => startup.err # ""
    /\ \A p \in Procs :
          SerialGenerated(p) =>
              /\ loc[p].serialBigInt[1] = startup.cfg.serialPrefix
              /\ Len(loc[p].serialBigInt) >= 17
              /\ loc[p].serialBigInt[1] < 128
    /\ \A p \in Procs :
          (loc[p].entry = "IssueCertificate" /\ HasCall(p, "Prepare")) =>
              /\ loc[p].req.Serial = loc[p].serialBigInt
              /\ \E random \in RandReads :
                     loc[p].req.Serial = <<startup.cfg.serialPrefix>> \o random

C15_Witness ==
    \E p \in Procs :
        /\ HasCallRes(p, "Prepare", "ok")
        /\ startup.cfg.serialPrefix = 1
        /\ loc[p].req.Serial[1] = 1

\* C16 (as claimed): every generated serial is exactly 17 bytes long: the
\* configured prefix byte followed by exactly 16 random bytes.
C16_SeventeenBytes ==
    \A p \in Procs :
        SerialGenerated(p) =>
            /\ Len(loc[p].serialBigInt) = 17
            /\ loc[p].serialBigInt[1] = ca.prefix

\* C16 (amended): every generated serial is exactly 18 bytes long: the
\* configured prefix byte followed by the 17 bytes (136 bits) read from the
\* random source.
C16_EighteenBytes ==
    \A p \in Procs :
        SerialGenerated(p) =>
            /\ Len(loc[p].serialBigInt) = 18
            /\ loc[p].serialBigInt[1] = ca.prefix
            /\ SubSeq(loc[p].serialBigInt, 2, 18) \in RandReads
            /\ Len(SubSeq(loc[p].serialBigInt, 2, 18)) * 8 = randBits

C16_Witness ==
    \E p \in Procs :
        /\ SerialGenerated(p)
        /\ pc[p] = "AddSerial"
        /\ ca.prefix = 127
        /\ Len(loc[p].serialBigInt) = 18

\* Two issuers of the list carry the same NameID.
SharedNameID(issuers) ==
    \E i, j \in 1..Len(issuers) : i # j /\ issuers[i].nameID = issuers[j].nameID

\* The issuers of the list that are active and of key type alg.
ActiveOfType(issuers, alg) ==
    { issuers[i] : i \in { j \in 1..Len(issuers) :
                              issuers[j].active /\ issuers[j].keyType = alg } }

\* C17: makeIssuerMaps fails exactly if two configured issuers share a NameID
\* (whatever their active flags and positions), or no active ECDSA issuer, or
\* no active RSA issuer is configured, and then no CA is constructed; on every
\* constructed CA, issuer selection for an RSA or ECDSA CSR never fails with
\* "no issuers found".
C17_IssuerMapsFailure ==
    LET issuers == startup.cfg.issuers
        bad == \/ SharedNameID(issuers)
               \/ ActiveOfType(issuers, "ECDSA") = {}
               \/ ActiveOfType(issuers, "RSA") = {}
    IN  /\ makeIssuerMaps(issuers).err # "" <=> bad
        /\ bad => startup.err # ""
        /\ \A p \in Procs :
              (loc[p].csr.ok /\ loc[p].csr.PublicKeyAlgorithm \in {"RSA", "ECDSA"}) =>
                  /\ ret[p] # NoIssuersError
                  /\ Len(ca.issuers.byAlg[loc[p].csr.PublicKeyAlgorithm]) > 0

C17_Witness ==
    LET issuers == startup.cfg.issuers IN
    /\ startup.err = "two issuers with same NameID configured"
    /\ Len(issuers) = MaxIssuers
    /\ issuers[1].nameID = issuers[MaxIssuers].nameID
    /\ ~issuers[1].active /\ ~issuers[MaxIssuers].active
    /\ issuers[1].keyType # issuers[MaxIssuers].keyType
    /\ ActiveOfType(issuers, "ECDSA") # {}

\* The elements of a sequence.
Range(seq) == { seq[i] : i \in 1..Len(seq) }

\* C18: for every issuer list makeIssuerMaps accepts, byAlg[A] holds exactly
\* the issuers that are active and of key type A (each once), and byNameID
\* maps the NameID of every configured issuer, active or not, to that issuer;
\* the issuer selected to sign a precertificate is active and its key type is
\* the CSR's PublicKeyAlgorithm.
C18_IssuerMaps ==
    startup.err = "" =>
        LET issuers == startup.cfg.issuers IN
        /\ \A alg \in PublicKeyAlgorithms :
              /\ Range(ca.issuers.byAlg[alg]) = ActiveOfType(issuers, alg)
              /\ Len(ca.issuers.byAlg[alg]) = Cardinality(ActiveOfType(issuers, alg))
        /\ DOMAIN ca.issuers.byNameID = { is.nameID : is \in Range(issuers) }
        /\ \A is \in Range(issuers) : ca.issuers.byNameID[is.nameID] = is
        /\ \A p \in Procs :
              (loc[p].entry = "IssueCertificate" /\ loc[p].issuer # 0) =>
                  /\ loc[p].issuer \in DOMAIN ca.issuers.byNameID
                  /\ ca.issuers.byNameID[loc[p].issuer].active
                  /\ ca.issuers.byNameID[loc[p].issuer].keyType
                         = loc[p].csr.PublicKeyAlgorithm

C18_Witness ==
    \E p \in Procs :
        /\ HasCallRes(p, "Prepare", "ok")
        /\ \E is \in Range(startup.cfg.issuers) :
              /\ ~is.active
              /\ is.keyType = loc[p].csr.PublicKeyAlgorithm
              /\ is.nameID # loc[p].issuer
        /\ Len(startup.cfg.issuers) = MaxIssuers

\* The kinds of error the service interface names.
ErrorKinds == {"Malformed", "BadPublicKey", "NotFound", "InternalServerError"}

\* C19: every error IssueCertificate returns has one of the kinds Malformed,
\* BadPublicKey, NotFound, InternalServerError: NotFound for an unknown
\* profile, Malformed for a CSR that does not parse, InternalServerError for
\* every other failure that is not a policy error.
C19_ErrorKinds ==
    \A p \in Procs :
        (loc[p].entry = "IssueCertificate" /\ Failed(p)) =>
            /\ ret[p].kind \in ErrorKinds
            /\ (calls[p] = <<>> /\ ~IncompleteGiven(p) /\ ca.sctClient # "nil"
                    /\ loc[p].certProfile \notin DOMAIN ca.certProfiles) =>
                   ret[p].kind = "NotFound"
            /\ (calls[p] = <<Call("AddSerial", "ok")>>
                    /\ ~ParseCertificateRequest(loc[p].Csr).ok) =>
                   ret[p].kind = "Malformed"
            /\ ret[p].kind \notin {"Malformed", "BadPublicKey", "NotFound"} =>
                   ret[p].kind = "InternalServerError"

\* The precertificate IssuanceRequest of caller p has been built.
RequestBuilt(p) == loc[p].entry = "IssueCertificate" /\ HasCall(p, "Prepare")

LowerSet(names) == { ToLower(n) : n \in names }

\* The common name of caller p's CSR is not among its SAN DNS names,
\* whatever the case of the letters.
CNOutsideSANs(p) ==
    /\ loc[p].csr.Subject.CommonName # <<>>
    /\ ToLower(loc[p].csr.Subject.CommonName)
           \notin LowerSet(Range(loc[p].csr.DNSNames))

\* C20 (as claimed): the DNS names of the precertificate IssuanceRequest never
\* come from the Subject DN alone: a Subject Common Name that is not among the
\* CSR's SAN DNS names does not appear in IssuanceRequest.DNSNames.
C20_NamesFromSANsOnly ==
    \A p \in Procs :
        (RequestBuilt(p) /\ CNOutsideSANs(p)) =>
            ToLower(loc[p].csr.Subject.CommonName) \notin Range(loc[p].req.DNSNames)

\* C20 (amended): the DNS names of the precertificate IssuanceRequest are the
\* CSR's SAN DNS names together with the Subject Common Name when there is
\* one, lowercased, each once, in ascending order: a common name that is not
\* among the SANs does appear in DNSNames.  The IP addresses are those of the
\* SANs.
C20_NamesFromSANsAndCN ==
    \A p \in Procs :
        RequestBuilt(p) =>
            LET csr == loc[p].csr
                cn == csr.Subject.CommonName
                names == loc[p].req.DNSNames
            IN  /\ Range(names)
                       = LowerSet(Range(csr.DNSNames)
                                      \cup (IF cn # <<>> THEN {cn} ELSE {}))
                /\ \A i, j \in 1..Len(names) : i < j => StrLess(names[i], names[j])
                /\ Range(loc[p].req.IPAddresses)
                       = { IPString(ip) : ip \in Range(csr.IPAddresses) }
                /\ loc[p].req.CommonName = cn

C20_Witness ==
    \E p \in Procs :
        /\ RequestBuilt(p)
        /\ CNOutsideSANs(p)
        /\ loc[p].csr.DNSNames # <<>>
        /\ ToLower(loc[p].csr.Subject.CommonName) \in Range(loc[p].req.DNSNames)

\* C21: every IssuanceRequest handed to Prepare has exactly one of
\* IncludeCTPoison = true and a non-empty SCT list: the precertificate's
\* request has the poison flag and no SCT list, the final certificate's
\* request has no poison flag and a non-empty SCT list, also when the SCT
\* provider returned an empty list, and then no final certificate is signed.
C21_PoisonSCTExclusivity ==
    \A p \in Procs :
        /\ HasCall(p, "Prepare") =>
               loc[p].req.IncludeCTPoison /\ Len(loc[p].req.sctList) = 0
        /\ HasCall(p, "FinalPrepare") =>
               ~loc[p].issuanceReq.IncludeCTPoison /\ Len(loc[p].issuanceReq.sctList) > 0
        /\ (pc[p] \notin {"idle", "GetSCTs"} /\ loc[p].sctBytes = <<>>) =>
               \A h \in hsm : ~(h.p = p /\ h.purpose = "certificate")

\* C22: with PropagateCancels enabled the context of the request that
\* ServeHTTP hands to the handler is done with "context canceled" once the
\* inbound context is cancelled; with PropagateCancels disabled it is never
\* done, whatever happens to the inbound context; in both cases it carries the
\* request's User-Agent, and the handler reads exactly that.
C22_CancelPropagation ==
    /\ th.pc # "idle" =>
         /\ features.PropagateCancels =>
              (inbound.cancelled =>
                   CtxErr(th.r.ctx, inbound.cancelled) = "context canceled")
         /\ ~features.PropagateCancels => CtxErr(th.r.ctx, inbound.cancelled) = ""
         /\ UserAgent(th.r.ctx) = inbound.Header.UserAgent
    /\ wfe.read =>
         /\ wfe.ctxErr # "" =>
              (features.PropagateCancels /\ inbound.cancelled
                   /\ wfe.ctxErr = "context canceled")
         /\ wfe.userAgent = inbound.Header.UserAgent

\* The handler has read "context canceled" from its context under
\* PropagateCancels, from a request that carries a User-Agent.
C22_Witness ==
    /\ features.PropagateCancels
    /\ wfe.read
    /\ wfe.ctxErr = "context canceled"
    /\ wfe.userAgent = "curl"

\* The status code of the handler's response as the claims describe it: the
\* code of its last WriteHeader call, 200 if it made none.
HandlerCode ==
    IF wfe.wroteHeader = <<>> THEN 200 ELSE wfe.wroteHeader[Len(wfe.wroteHeader)]

\* The request line "Method Endpoint Requester Code Latency RealIP JSON=...".
IsRequestLine(line) == line.level = "INFO"

\* C23 as stated: once ServeHTTP has completed with a RequestEvent that is not
\* suppressed, exactly one request log line was written, and its status code
\* is the code the handler passed to WriteHeader, or 200 if it passed none.
C23_OneRequestLine ==
    (th.pc = "done" /\ ~th.logEvent.suppressed) =>
        /\ Len(infoLog) = 1
        /\ IsRequestLine(infoLog[1])
        /\ infoLog[1].Code = HandlerCode

\* C23, amended: nothing is logged before ServeHTTP completes; on completion
\* with an event that is not suppressed exactly one line is written: the
\* request line with the code of the last WriteHeader call (200 if there was
\* none) when the event marshals to JSON, and otherwise an audit error line
\* that is not a request line.
C23_OneLineOnCompletion ==
    /\ th.pc # "done" => infoLog = <<>>
    /\ (th.pc = "done" /\ ~th.logEvent.suppressed) =>
         /\ Len(infoLog) = 1
         /\ "chan" \notin th.logEvent.Extra =>
                IsRequestLine(infoLog[1]) /\ infoLog[1].Code = HandlerCode
         /\ "chan" \in th.logEvent.Extra => ~IsRequestLine(infoLog[1])

\* ServeHTTP completed for a handler that called WriteHeader(201) and left
\* the event unsuppressed, and the request line with 201 was written.
C23_Witness ==
    /\ th.pc = "done"
    /\ ~th.logEvent.suppressed
    /\ wfe.wroteHeader = <<201>>
    /\ infoLog # <<>>
    /\ IsRequestLine(infoLog[1])
    /\ infoLog[1].Code = 201

\* The signing operations that returned a precertificate for a serial whose
\* TBS is the lint certificate's.
GoodPrecertSignings(serialHex) ==
    { h \in hsm : /\ h.purpose = "precertificate"
                  /\ h.serial = serialHex
                  /\ h.res = "ok"
                  /\ ~Mismatched(h) }

\* Every serial in status good has its serial row, its lint-precertificate
\* row and a signed precertificate that passed the determinism check.
GoodOnlyAfterPrecert ==
    \A serialHex \in sa.good :
        /\ saHasSerial(sa, serialHex)
        /\ saHasPrecert(sa, serialHex)
        /\ GoodPrecertSignings(serialHex) # {}

\* A caller calls SetCertificateStatusReady only after its AddSerial, its
\* AddPrecertificate and its precertificate Issue succeeded.
ReadyOnlyOnPrecertPath ==
    \A p \in Procs :
        HasCall(p, "SetCertificateStatusReady") =>
            /\ HasCallRes(p, "AddSerial", "ok")
            /\ HasCallRes(p, "AddPrecertificate", "ok")
            /\ HasCallRes(p, "Issue", "ok")
            /\ GoodPrecertSignings(SerialHexOf(p)) # {}

\* C24: a serial is good only if AddSerial succeeded for it, its
\* lint-precertificate row exists, and the issuer signed a precertificate for
\* it that passed the TBS determinism check; no step of the CA takes a serial
\* out of good (every serial that was set ready is still good), and
\* SetCertificateStatusReady is called on no other path.
C24_SerialStateMachine ==
    /\ GoodOnlyAfterPrecert
    /\ ReadyOnlyOnPrecertPath
    /\ \A p \in Procs :
         HasCallRes(p, "SetCertificateStatusReady", "ok") => SerialHexOf(p) \in sa.good

\* A serial has become good.
C24_Witness ==
    \E p \in Procs :
        /\ HasCallRes(p, "SetCertificateStatusReady", "ok")
        /\ saStatus(sa, SerialHexOf(p)) = "good"

\* The final certificates that the issuers signed.
FinalSignings == { h \in hsm : h.purpose = "certificate" /\ h.res = "ok" }

\* C25 as stated: for every serial, over all invocations of
\* issueCertificateForPrecertificate (also one that follows an invocation
\* which signed and then failed in AddCertificate), the issuers sign a final
\* certificate at most once.
C25_SignedAtMostOnce ==
    \A h1, h2 \in FinalSignings : h1.serial = h2.serial => h1 = h2

\* C25, amended: the invocations of IssueCertificate sign at most one final
\* certificate per serial, each of them at most one; an invocation of
\* issueCertificateForPrecertificate signs only after its GetCertificate
\* returned NotFound, which is also what it returns after an earlier
\* invocation signed and then failed to store its certificate.
C25_SignedOncePerIssueCertificate ==
    /\ \A h1, h2 \in FinalSignings :
         (/\ h1.serial = h2.serial
          /\ loc[h1.p].entry = "IssueCertificate"
          /\ loc[h2.p].entry = "IssueCertificate") => h1 = h2
    /\ \A h \in FinalSignings : HasCallRes(h.p, "GetCertificate", "NotFound")
    /\ \A p \in Procs : CountOp(p, "FinalIssue") <= 1

\* An invocation signed the final certificate and failed in AddCertificate;
\* a later direct invocation for the same serial found nothing stored and
\* signed a final certificate again.
C25_Witness ==
    \E p, q \in Procs :
        /\ p # q
        /\ loc[p].entry = "IssueCertificate"
        /\ HasCallRes(p, "FinalIssue", "ok")
        /\ HasCallRes(p, "AddCertificate", "err")
        /\ loc[q].entry = "issueCertificateForPrecertificate"
        /\ SerialHexOf(q) = SerialHexOf(p)
        /\ HasCallRes(q, "GetCertificate", "NotFound")
        /\ HasCallRes(q, "FinalIssue", "ok")
        /\ Cardinality(FinalSignings) = 2

\* The position of caller p's first call of op in its calls, 0 if it made none.
CallIndex(p, op) ==
    IF HasCall(p, op)
    THEN CHOOSE i \in 1..Len(calls[p]) :
             /\ calls[p][i].op = op
             /\ \A j \in 1..(i - 1) : calls[p][j].op # op
    ELSE 0

\* C26 as stated: in the final path the certificate is persisted before it
\* is signed: Prepare, then AddCertificate, then Issue, then the determinism
\* check.
C26_PersistedBeforeSigned ==
    \A p \in Procs :
        HasCall(p, "FinalIssue") =>
            /\ HasCall(p, "AddCertificate")
            /\ CallIndex(p, "FinalPrepare") < CallIndex(p, "AddCertificate")
            /\ CallIndex(p, "AddCertificate") < CallIndex(p, "FinalIssue")

\* C26, amended: in the final path the certificate is signed before it is
\* persisted: Prepare, then Issue, then the determinism check, then
\* AddCertificate with the signed DER; AddCertificate is called only after
\* Prepare and Issue succeeded and the determinism check passed, and nothing
\* is stored for the serial before the final Issue.
C26_SignedBeforePersisted ==
    \A p \in Procs :
        /\ HasCall(p, "AddCertificate") =>
             /\ HasCallRes(p, "FinalPrepare", "ok")
             /\ HasCallRes(p, "FinalIssue", "ok")
             /\ CallIndex(p, "FinalPrepare") < CallIndex(p, "FinalIssue")
             /\ CallIndex(p, "FinalIssue") < CallIndex(p, "AddCertificate")
             /\ TBSOf(loc[p].lintCertBytes) = TBSOf(loc[p].certDER)
        /\ (pc[p] = "FinalIssue" /\ \A h \in hsm : h.purpose # "certificate") =>
               ~saHasCert(sa, SerialHexOf(p))

\* A final certificate was signed and then stored.
C26_Witness ==
    \E p \in Procs :
        /\ HasCallRes(p, "FinalIssue", "ok")
        /\ HasCallRes(p, "AddCertificate", "ok")
        /\ saHasCert(sa, SerialHexOf(p))

\* Caller p made no final Issue call and no AddCertificate call.
NoFinalSigning(p) ==
    /\ ~HasCall(p, "FinalIssue")
    /\ ~HasCall(p, "AddCertificate")
    /\ \A h \in hsm : ~(h.p = p /\ h.purpose = "certificate")

\* Caller p is past GetCertificate, which found no final certificate.
PastDuplicateCheck(p) ==
    /\ HasCallRes(p, "GetCertificate", "NotFound")
    /\ pc[p] # "GetCertificate"

\* A check that precedes the final signing has failed for caller p.
PreSigningCheckFailed(p) ==
    \/ \E i \in 1..Len(calls[p]) :
         /\ calls[p][i].op = "GetCertificate"
         /\ calls[p][i].res \notin {"ok", "NotFound"}
    \/ PastDuplicateCheck(p) /\ \E i \in 1..Len(loc[p].sctBytes) : loc[p].sctBytes[i] = <<0>>
    \/ /\ PastDuplicateCheck(p)
       /\ ParseCertificate(loc[p].precertDER).IssuerNameID \notin DOMAIN ca.issuers.byNameID
    \/ \E i \in 1..Len(calls[p]) :
         calls[p][i].op = "FinalPrepare" /\ calls[p][i].res # "ok"

\* C27: in issueCertificateForPrecertificate, when GetCertificate fails with
\* an error other than NotFound, an SCT does not parse, the precertificate's
\* issuer is not in byNameID, or Prepare fails, the invocation returns an
\* error and makes no Issue and no AddCertificate call.
C27_NoSigningAfterFailedCheck ==
    \A p \in Procs :
        PreSigningCheckFailed(p) =>
            /\ NoFinalSigning(p)
            /\ pc[p] \in {"FinalPrepare", "done"}
            /\ pc[p] = "FinalPrepare" => ~HasCall(p, "FinalPrepare")
            /\ pc[p] = "done" => Failed(p)

\* An invocation was given an SCT that does not parse and returned the error.
C27_Witness ==
    \E p \in Procs :
        /\ PastDuplicateCheck(p)
        /\ \E i \in 1..Len(loc[p].sctBytes) : loc[p].sctBytes[i] = <<0>>
        /\ Failed(p)
        /\ ret[p].msg = "tls: unmarshal SCT"

\* C28: within one invocation of IssueCertificate the final certificate is
\* signed by the issuer that signed the precertificate, also when several
\* active issuers share the key algorithm, and under the same certificate
\* profile, the one the request named.
C28_SameIssuerAndProfile ==
    \A p \in Procs :
        loc[p].entry = "IssueCertificate" =>
            \A h1, h2 \in hsm :
                (/\ h1.p = p /\ h1.purpose = "precertificate"
                 /\ h2.p = p /\ h2.purpose = "certificate") =>
                    /\ h2.issuer = h1.issuer
                    /\ h2.issuer = ParseCertificate(loc[p].precertDER).IssuerNameID
                    /\ h2.profile = h1.profile
                    /\ h2.profile = loc[p].certProfile

\* An invocation of IssueCertificate had both certificates signed by the
\* second of the active RSA issuers, under the profile tlsserver.
C28_Witness ==
    \E p \in Procs :
        /\ loc[p].entry = "IssueCertificate"
        /\ HasCallRes(p, "FinalIssue", "ok")
        /\ Len(ca.issuers.byAlg[loc[p].csr.PublicKeyAlgorithm]) > 1
        /\ \E h \in FinalSignings :
             /\ h.p = p
             /\ h.profile = "tlsserver"
             /\ h.issuer # ca.issuers.byAlg[loc[p].csr.PublicKeyAlgorithm][1].nameID

\* The calls that carry the request's context.
ContextCalls ==
    {"AddSerial", "SetCertificateStatusReady", "GetSCTs", "GetCertificate",
     "AddCertificate"}

\* The cancellation of caller p's context arrived before its AddSerial call.
CancelledBeforeAddSerial(p) ==
    ctx[p].cancelled /\ ctx[p].at \in {"idle", "AddSerial"}

\* C29: when the request's context is cancelled before the AddSerial call is
\* made, the request writes nothing to the Storage Authority and asks for no
\* signature: its AddSerial call fails, it makes no other call, and it
\* returns the error.
C29_NothingWrittenIfCancelledEarly ==
    \A p \in Procs :
        (FirstCaller(p) /\ CancelledBeforeAddSerial(p)) =>
            /\ sa.serials = {} /\ sa.precerts = {} /\ sa.good = {} /\ sa.certs = {}
            /\ hsm = {}
            /\ \A i \in 1..Len(calls[p]) : calls[p][i] = Call("AddSerial", "canceled")
            /\ HasCall(p, "AddSerial") => (pc[p] = "done" /\ Failed(p))

\* The request was cancelled before AddSerial, made the call and failed.
C29_Witness ==
    \E p \in Procs :
        /\ CancelledBeforeAddSerial(p)
        /\ calls[p] = <<Call("AddSerial", "canceled")>>
        /\ ret[p] = RpcErr("AddSerial")
        /\ sa.serials = {}

\* The cancellation of caller p's context arrived after its AddSerial call
\* and before it called AddPrecertificate.
CancelledAfterAddSerial(p) ==
    ctx[p].cancelled /\ ctx[p].at \in {"VerifyCSR", "Prepare", "AddPrecertificate"}

\* C30: AddPrecertificate is not sent on the request's context and Issue
\* takes none: no AddPrecertificate call and no Issue call fails because the
\* request was cancelled; every call that does fail for that reason carries
\* the request's context; a request cancelled after AddSerial whose
\* lint-precertificate write and precertificate signing went through fails
\* at SetCertificateStatusReady and leaves its serial in wait with a precert
\* row and a signed precertificate; and no precertificate is ever signed
\* without its precert row.
C30_CancelAfterAddSerial ==
    /\ \A p \in Procs :
         /\ \A i \in 1..Len(calls[p]) :
              calls[p][i].res = "canceled" => calls[p][i].op \in ContextCalls
         /\ (CancelledAfterAddSerial(p) /\ HasCall(p, "SetCertificateStatusReady")) =>
              /\ calls[p][Len(calls[p])] = Call("SetCertificateStatusReady", "canceled")
              /\ ret[p] = RpcErr("SetCertificateStatusReady")
              /\ saStatus(sa, SerialHexOf(p)) = "wait"
              /\ saHasPrecert(sa, SerialHexOf(p))
              /\ GoodPrecertSignings(SerialHexOf(p)) # {}
    /\ \A h \in hsm :
         (h.purpose = "precertificate" /\ h.res = "ok") => saHasPrecert(sa, h.serial)

\* The request was cancelled after AddSerial and before AddPrecertificate,
\* wrote the precert row, had the precertificate signed and failed at
\* SetCertificateStatusReady with its serial in wait.
C30_Witness ==
    \E p \in Procs :
        /\ CancelledAfterAddSerial(p)
        /\ HasCallRes(p, "AddPrecertificate", "ok")
        /\ HasCallRes(p, "Issue", "ok")
        /\ ret[p] = RpcErr("SetCertificateStatusReady")
        /\ saStatus(sa, SerialHexOf(p)) = "wait"
        /\ saHasPrecert(sa, SerialHexOf(p))
        /\ GoodPrecertSignings(SerialHexOf(p)) # {}

\* ---------------------------------------------------------------------------
\* Audit log discipline of the two signing steps
\* ---------------------------------------------------------------------------

AuditCount(p, msg) ==
    Cardinality({i \in 1..Len(audit[p]) : audit[p][i].msg = msg})

HasAudit(p, msg) == AuditCount(p, msg) > 0

SigningOutcomes(signing) ==
    IF signing = "Signing precert"
    THEN {"Signing precert failed", "Signing precert success"}
    ELSE {"Signing cert failed", "Signing cert success"}

SigningPurpose(signing) ==
    IF signing = "Signing precert" THEN "precertificate" ELSE "certificate"

SigningOp(signing) == IF signing = "Signing precert" THEN "Issue" ELSE "FinalIssue"

\* C31: in a request's audit log there is exactly one "Signing precert"
\* (resp. "Signing cert") record per call of the issuer's Issue, written
\* directly before the call, so that the only record that can follow it is
\* the outcome of that call; a "... success" record directly follows its
\* signing record, carries the same serial, and exists only if that Issue
\* returned a DER whose TBS equals the lint TBS; the CSR is carried by the
\* "Signing precert" record and by no other record.
C31_AuditDiscipline ==
    \A p \in Procs :
        /\ \A s \in {"Signing precert", "Signing cert"} :
               AuditCount(p, s) = CountOp(p, SigningOp(s))
        /\ \A i \in 1..Len(audit[p]) :
             LET a == audit[p] IN
             /\ \A s \in {"Signing precert", "Signing cert"} :
                  /\ a[i].msg \in SigningOutcomes(s) =>
                         /\ i > 1
                         /\ a[i-1].msg = s
                         /\ a[i-1].serial = a[i].serial
                  /\ (a[i].msg = s /\ i < Len(a)) => a[i+1].msg \in SigningOutcomes(s)
                  /\ a[i].msg = s \o " success" =>
                         \E h \in hsm :
                             /\ h.p = p /\ h.purpose = SigningPurpose(s)
                             /\ h.serial = a[i].serial
                             /\ h.res = "ok"
                             /\ TBSOf(h.lint) = TBSOf(h.der)
             /\ a[i].csr <=> a[i].msg = "Signing precert"

C31_Witness ==
    \E p \in Procs :
        /\ HasAudit(p, "Signing precert success")
        /\ HasAudit(p, "Signing cert success")
        /\ \E i \in 1..Len(audit[p]) : audit[p][i].csr
        /\ \E q \in Procs : HasAudit(q, "Signing cert failed")

AuditObjectMsgs ==
    {"Signing precert", "Signing precert success", "Signing cert", "Signing cert success"}

\* C32: when a request has returned, every "Signing precert" or "Signing
\* cert" record that is not directly followed by its success record (Issue
\* returned an error, or the TBS comparison failed) is followed by an audit
\* error record that carries the same serial.
C32_FailedSigningAudited ==
    \A p \in Procs :
        pc[p] = "done" =>
            \A i \in 1..Len(audit[p]) :
                LET a == audit[p] IN
                (/\ a[i].msg \in {"Signing precert", "Signing cert"}
                 /\ ~(i < Len(a) /\ a[i+1].msg = a[i].msg \o " success")) =>
                    \E j \in (i+1)..Len(a) :
                        /\ a[j].msg \notin AuditObjectMsgs
                        /\ a[j].serial = a[i].serial

\* ---------------------------------------------------------------------------
\* tbsCertIsDeterministic as a function of its two arguments
\* ---------------------------------------------------------------------------

\* The contents of the first element of the outer SEQUENCE, when both are
\* SEQUENCEs.
InnerSequence(b) ==
    LET outer == ReadASN1(b, TagSequence)
        inner == ReadASN1(outer.body, TagSequence)
    IN  [ok |-> outer.ok /\ inner.ok, contents |-> inner.body]

\* C33: tbsCertIsDeterministic returns nil exactly when both arguments are
\* non-empty, each parses as an outer SEQUENCE whose first element is a
\* SEQUENCE with non-empty contents, and the two contents are equal; that is,
\* exactly when the two arguments are certificates built around the same
\* TBSCertificate, whatever follows the TBS inside or after the certificate.
\* A nil, malformed or empty-TBS argument on either side yields an error.
C33_TbsCertIsDeterministic ==
    (eval.fn = "tbsCertIsDeterministic" /\ eval.returned) =>
        LET lint == eval.lintCertBytes
            leaf == eval.leafCertBytes
        IN  /\ (eval.err = "") <=>
                   /\ lint # <<>> /\ leaf # <<>>
                   /\ InnerSequence(lint).ok /\ InnerSequence(leaf).ok
                   /\ InnerSequence(lint).contents # <<>>
                   /\ InnerSequence(leaf).contents # <<>>
                   /\ InnerSequence(lint).contents = InnerSequence(leaf).contents
            /\ (eval.err = "") <=>
                   \E t \in TBSContents :
                       \E o1, o2 \in OutsideTBS, x1, x2 \in TrailingData :
                           /\ lint = CertBytes(t, o1, x1)
                           /\ leaf = CertBytes(t, o2, x2)
            /\ (lint \in MalformedCerts \/ leaf \in MalformedCerts) => eval.err # ""

C33_Witness ==
    /\ eval.fn = "tbsCertIsDeterministic"
    /\ eval.returned
    /\ eval.err = ""
    /\ eval.lintCertBytes = CertBytes(TLV(Tags.integer, <<5>>), <<>>, <<>>)
    /\ eval.leafCertBytes = CertBytes(TLV(Tags.integer, <<5>>), TLV(Tags.bitString, <<0>>), <<9>>)

\* ---------------------------------------------------------------------------
\* identifier.Normalize as a function of its argument
\* ---------------------------------------------------------------------------

\* The lowercased form of each identifier of IdentInputs.
Lowercased(ident) ==
    IF ident = NewDNS(<<65>>) THEN NewDNS(<<97>>)
    ELSE IF ident = [Type |-> "ip", Value |-> <<58, 58, 65>>]
         THEN [Type |-> "ip", Value |-> <<58, 58, 97>>]
    ELSE ident

Reverse(seq) == [i \in 1..Len(seq) |-> seq[Len(seq) + 1 - i]]

\* C36: for a list of dns and ip identifiers Normalize returns exactly the
\* lowercased identifiers of the list, each once, every DNS identifier
\* before every IP identifier and each of the two groups in strictly
\* ascending order of value; the reversed list and the list repeated twice
\* give the same result; and Normalize of the result is the result.
C36_Normalize ==
    (eval.fn = "Normalize" /\ eval.out # <<>>) =>
        LET out == eval.out[1] IN
        /\ Range(out) = { Lowercased(x) : x \in Range(eval.idents) }
        /\ \A i, j \in 1..Len(out) :
               i < j =>
                   /\ out[i] # out[j]
                   /\ ~(out[i].Type = "ip" /\ out[j].Type = "dns")
                   /\ out[i].Type = out[j].Type => StrLess(out[i].Value, out[j].Value)
        /\ Normalize(Reverse(eval.idents)) = out
        /\ Normalize(eval.idents \o eval.idents) = out
        /\ Len(eval.out) = 2 => eval.out[2] = out

C36_Witness ==
    /\ eval.fn = "Normalize"
    /\ Len(eval.out) = 2
    /\ eval.idents = <<[Type |-> "ip", Value |-> <<58, 58, 65>>], NewDNS(<<98>>),
                       NewDNS(<<65>>)>>
    /\ eval.out[2] = <<NewDNS(<<97>>), NewDNS(<<98>>),
                       [Type |-> "ip", Value |-> <<58, 58, 97>>]>>

\* ---------------------------------------------------------------------------
\* RequestEvent suppression
\* ---------------------------------------------------------------------------

\* The handler called the method on its RequestEvent.
EventCalled(method) == \E i \in 1..Len(wfe.eventCalls) : wfe.eventCalls[i] = method

\* After any calls of AddError and Suppress: the event is suppressed only if
\* it has no internal error; it has one internal error per AddError call; and
\* it is suppressed exactly if Suppress was called and AddError never was, so
\* that Suppress after an AddError changes nothing and AddError after a
\* Suppress clears the suppression.
SuppressionInvariant ==
    LET e == th.logEvent IN
    /\ e.suppressed => e.InternalErrors = <<>>
    /\ Len(e.InternalErrors) =
           Cardinality({i \in 1..Len(wfe.eventCalls) : wfe.eventCalls[i] = "AddError"})
    /\ e.suppressed <=> (EventCalled("Suppress") /\ ~EventCalled("AddError"))

HasSuffix(str, suffix) ==
    /\ Len(str) >= Len(suffix)
    /\ SubSeq(str, Len(str) - Len(suffix) + 1, Len(str)) = suffix

EndsInDefaultPort(host) ==
    HasSuffix(host, DefaultPorts.https) \/ HasSuffix(host, DefaultPorts.http)

\* The host without its last default port.
WithoutPort(host) ==
    IF HasSuffix(host, DefaultPorts.https)
    THEN SubSeq(host, 1, Len(host) - Len(DefaultPorts.https))
    ELSE IF HasSuffix(host, DefaultPorts.http)
    THEN SubSeq(host, 1, Len(host) - Len(DefaultPorts.http))
    ELSE host

\* C35 as stated: the handler sees the request's Host with its trailing
\* ":80" or ":443" removed, sees a Host with another port or no port
\* unchanged, and never sees a Host that ends in ":80" or ":443".
C35_NeverEndsInDefaultPort ==
    wfe.read =>
        /\ EndsInDefaultPort(inbound.Host) => wfe.Host = WithoutPort(inbound.Host)
        /\ ~EndsInDefaultPort(inbound.Host) => wfe.Host = inbound.Host
        /\ ~EndsInDefaultPort(wfe.Host)

\* C35, amended: the handler sees the request's Host with at most one
\* trailing ":443" and then at most one trailing ":80" removed, with or
\* without TLS state.  A Host with another port or no port is unchanged; a
\* Host with a single trailing default port loses it and then ends in neither
\* port; a Host ending in ":80:443" loses both; a Host ending in ":443:80",
\* ":80:80" or ":443:443" loses only the last one, so that the Host the
\* handler sees still ends in a default port.
C35_OneOfEachPortStripped ==
    wfe.read =>
        LET host == inbound.Host
            rest == WithoutPort(inbound.Host)
        IN  /\ ~EndsInDefaultPort(host) => wfe.Host = host
            /\ (EndsInDefaultPort(host) /\ ~EndsInDefaultPort(rest)) =>
                   wfe.Host = rest /\ ~EndsInDefaultPort(wfe.Host)
            /\ (HasSuffix(host, DefaultPorts.https) /\ HasSuffix(rest, DefaultPorts.http)) =>
                   wfe.Host = WithoutPort(rest)
            /\ (HasSuffix(host, DefaultPorts.http) /\ EndsInDefaultPort(rest)) =>
                   wfe.Host = rest /\ EndsInDefaultPort(wfe.Host)
            /\ (HasSuffix(host, DefaultPorts.https) /\ HasSuffix(rest, DefaultPorts.https)) =>
                   wfe.Host = rest /\ EndsInDefaultPort(wfe.Host)

\* A request without TLS state whose Host is "h:443": the handler saw "h".
C35_Witness ==
    /\ wfe.read
    /\ ~inbound.TLS
    /\ inbound.Host = <<"h">> \o DefaultPorts.https
    /\ wfe.Host = <<"h">>

====
